---- MODULE Spec2Model ----
(***************************************************************************)
(* Student Composition Corrector (web/js): the typo classifier             *)
(* (TypoDetector), the OCR result normalizer, the annotation layout and    *)
(* the asynchronous OCR run of CompositionCorrectorApp.                    *)
(*                                                                         *)
(* Strings are sequences of one-character strings, so that cleaning,       *)
(* substring search and regular-expression tests are computed character    *)
(* by character as the JavaScript does.                                    *)
(***************************************************************************)
EXTENDS Integers, Sequences, FiniteSets, TLC

VARIABLES classify, layout, app, runs, workers

vars == <<classify, layout, app, runs, workers>>

\* The variables of the two stand-alone stages, and those of the application.
stageVars == <<classify, layout>>

appVars == <<app, runs, workers>>

Range(s) == {s[i] : i \in 1..Len(s)}

(***************************************************************************)
(* Characters and the JavaScript string primitives the detector uses.      *)
(***************************************************************************)
LowerLetters ==
  <<"a", "b", "c", "d", "e", "f", "g", "h", "i", "j", "k", "l", "m",
    "n", "o", "p", "q", "r", "s", "t", "u", "v", "w", "x", "y", "z">>

UpperLetters ==
  <<"A", "B", "C", "D", "E", "F", "G", "H", "I", "J", "K", "L", "M",
    "N", "O", "P", "Q", "R", "S", "T", "U", "V", "W", "X", "Y", "Z">>

Digits == {"0", "1", "2", "3", "4", "5", "6", "7", "8", "9"}

\* String.prototype.toLowerCase, one character.
toLowerCaseChar(c) ==
  IF c \in Range(UpperLetters)
    THEN LowerLetters[CHOOSE i \in 1..Len(UpperLetters) : UpperLetters[i] = c]
    ELSE c

\* String.prototype.toLowerCase.
toLowerCase(s) == [i \in 1..Len(s) |-> toLowerCaseChar(s[i])]

\* The regular expression class \w (no u flag): ASCII letters, digits and
\* the underscore. Every other character, CJK included, is outside it.
IsWordChar(c) ==
  c \in Range(LowerLetters) \cup Range(UpperLetters) \cup Digits \cup {"_"}

\* String.prototype.includes.
includes(s, t) ==
  \E i \in 0..(Len(s) - Len(t)) : SubSeq(s, i + 1, i + Len(t)) = t

\* cleanWord with the replace forgotten.
cleanWord_noStrip(word) == toLowerCase(word)

\* cleanWord(word): word.toLowerCase().replace(/[^\w]/g, '')
cleanWord(word) == SelectSeq(toLowerCase(word), IsWordChar)

(***************************************************************************)
(* The detector's tables. typoCorrections is an object literal; its        *)
(* entries are kept in insertion order, the order Object.entries walks.    *)
(***************************************************************************)
typoCorrections ==
  << <<<<"s", "u", "m", "e", "r">>, <<"s", "u", "m", "m", "e", "r">>>>,
     <<<<"f", "a", "m", "i", "l", "l", "y">>, <<"f", "a", "m", "i", "l", "y">>>>,
     <<<<"w", "i", "c", "h">>, <<"w", "h", "i", "c", "h">>>>,
     <<<<"w", "h", "e", "t", "h", "e", "r">>, <<"w", "e", "a", "t", "h", "e", "r">>>>,
     <<<<"b", "e", "u", "t", "i", "f", "u", "l">>, <<"b", "e", "a", "u", "t", "i", "f", "u", "l">>>>,
     <<<<"e", "n", "j", "o", "i", "e", "d">>, <<"e", "n", "j", "o", "y", "e", "d">>>>,
     <<<<"s", "w", "i", "m", "i", "n", "g">>, <<"s", "w", "i", "m", "m", "i", "n", "g">>>>,
     <<<<"f", "a", "v", "r", "i", "t", "e">>, <<"f", "a", "v", "o", "r", "i", "t", "e">>>>,
     <<<<"b", "u", "l", "d", "i", "n", "g">>, <<"b", "u", "i", "l", "d", "i", "n", "g">>>>,
     <<<<"r", "e", "s", "t", "u", "r", "a", "n", "t">>, <<"r", "e", "s", "t", "a", "u", "r", "a", "n", "t">>>>,
     <<<<"d", "e", "l", "i", "s", "i", "o", "u", "s">>, <<"d", "e", "l", "i", "c", "i", "o", "u", "s">>>>,
     <<<<"c", "a", "n", "t">>, <<"c", "a", "n", "'", "t">>>>,
     <<<<"w", "o", "n", "t">>, <<"w", "o", "n", "'", "t">>>>,
     <<<<"d", "o", "n", "t">>, <<"d", "o", "n", "'", "t">>>>,
     <<<<"t", "e", "h">>, <<"t", "h", "e">>>>,
     <<<<"r", "e", "c", "i", "e", "v", "e">>, <<"r", "e", "c", "e", "i", "v", "e">>>>,
     <<<<"s", "e", "p", "e", "r", "a", "t", "e">>, <<"s", "e", "p", "a", "r", "a", "t", "e">>>>,
     <<<<"o", "c", "c", "u", "r", "e", "d">>, <<"o", "c", "c", "u", "r", "r", "e", "d">>>>,
     <<<<"b", "e", "g", "i", "n", "i", "n", "g">>, <<"b", "e", "g", "i", "n", "n", "i", "n", "g">>>>,
     <<<<"a", "c", "c", "o", "m", "o", "d", "a", "t", "e">>, <<"a", "c", "c", "o", "m", "m", "o", "d", "a", "t", "e">>>> >>

\* chineseTypoCorrections, with the characters the file stores: every key
\* and every value is a string of three characters outside \w (the bytes of
\* one CJK character, each read as a character of its own). No method of
\* the detector reads this table.
chineseTypoCorrections ==
  << <<<<"U+00C1", "U+00F6", "U+00D1">>, <<"U+00C2", "U+00FA", "U+221E">>>>,
     <<<<"U+00C2", "U+00FA", "U+00AE">>, <<"U+00C2", "U+00DC", "U+00E7">>>>,
     <<<<"U+2030", "U+00AA", "U+00F1">>, <<"U+00C2", "U+2022", "U+03C0">>>>,
     <<<<"U+00C8", "U+00C7", "U+00A3">>, <<"U+00C2", "U+00EC", "U+2122">>>>,
     <<<<"U+00C2", "U+00C5", "U+00F6">>, <<"U+2030", "U+03A9", "U+00FA">>>>,
     <<<<"U+00C2", "U+00C9", "U+00E8">>, <<"U+00CB", "U+00B1", "U+00B0">>>>,
     <<<<"U+2030", "U+00AA", "U+2022">>, <<"U+00C2", "U+2211", "U+2264">>>>,
     <<<<"U+00C1", "U+00AA", "U+00C9">>, <<"U+00C1", "U+00C7", "U+00BA">>>> >>

commonWords ==
  {
    <<"t", "h", "e">>, <<"a", "n", "d">>, <<"o", "r">>, <<"b", "u", "t">>, <<"i", "n">>,
    <<"o", "n">>, <<"a", "t">>, <<"t", "o">>, <<"f", "o", "r">>, <<"o", "f">>,
    <<"w", "i", "t", "h">>, <<"b", "y">>, <<"f", "r", "o", "m">>, <<"u", "p">>,
    <<"a", "b", "o", "u", "t">>, <<"i", "n", "t", "o">>, <<"t", "h", "r", "o", "u", "g", "h">>,
    <<"d", "u", "r", "i", "n", "g">>, <<"b", "e", "f", "o", "r", "e">>,
    <<"a", "f", "t", "e", "r">>, <<"a", "b", "o", "v", "e">>, <<"b", "e", "l", "o", "w">>,
    <<"b", "e", "t", "w", "e", "e", "n">>, <<"a", "m", "o", "n", "g">>,
    <<"u", "n", "d", "e", "r">>, <<"o", "v", "e", "r">>, <<"a">>, <<"a", "n">>, <<"i", "s">>,
    <<"w", "a", "s">>, <<"a", "r", "e">>, <<"w", "e", "r", "e">>, <<"b", "e">>,
    <<"b", "e", "e", "n">>, <<"b", "e", "i", "n", "g">>, <<"h", "a", "v", "e">>,
    <<"h", "a", "s">>, <<"h", "a", "d">>, <<"d", "o">>, <<"d", "o", "e", "s">>,
    <<"d", "i", "d">>, <<"w", "i", "l", "l">>, <<"w", "o", "u", "l", "d">>,
    <<"c", "o", "u", "l", "d">>, <<"s", "h", "o", "u", "l", "d">>, <<"m", "a", "y">>,
    <<"m", "i", "g", "h", "t">>, <<"m", "u", "s", "t">>, <<"c", "a", "n">>,
    <<"c", "a", "n", "n", "o", "t">>, <<"t", "h", "i", "s">>, <<"t", "h", "a", "t">>,
    <<"t", "h", "e", "s", "e">>, <<"t", "h", "o", "s", "e">>, <<"i">>, <<"y", "o", "u">>,
    <<"h", "e">>, <<"s", "h", "e">>, <<"i", "t">>, <<"w", "e">>, <<"t", "h", "e", "y">>,
    <<"m", "e">>, <<"h", "i", "m">>, <<"h", "e", "r">>, <<"u", "s">>, <<"t", "h", "e", "m">>,
    <<"m", "y">>, <<"y", "o", "u", "r">>, <<"h", "i", "s">>, <<"o", "u", "r">>,
    <<"t", "h", "e", "i", "r">>, <<"a", "l", "l">>, <<"a", "n", "y">>, <<"b", "o", "t", "h">>,
    <<"e", "a", "c", "h">>, <<"f", "e", "w">>, <<"m", "o", "r", "e">>, <<"m", "o", "s", "t">>,
    <<"o", "t", "h", "e", "r">>, <<"s", "o", "m", "e">>, <<"s", "u", "c", "h">>, <<"n", "o">>,
    <<"n", "o", "r">>, <<"n", "o", "t">>, <<"o", "n", "l", "y">>, <<"o", "w", "n">>,
    <<"s", "a", "m", "e">>, <<"s", "o">>, <<"t", "h", "a", "n">>, <<"t", "o", "o">>,
    <<"v", "e", "r", "y">>, <<"j", "u", "s", "t">>, <<"n", "o", "w">>, <<"h", "e", "r", "e">>,
    <<"t", "h", "e", "r", "e">>, <<"w", "h", "e", "n">>, <<"w", "h", "e", "r", "e">>,
    <<"w", "h", "y">>, <<"h", "o", "w">>, <<"w", "h", "a", "t">>, <<"w", "h", "i", "c", "h">>,
    <<"w", "h", "o">>, <<"w", "h", "o", "m">>, <<"w", "h", "o", "s", "e">>, <<"i", "f">>,
    <<"b", "e", "c", "a", "u", "s", "e">>, <<"a", "s">>, <<"u", "n", "t", "i", "l">>,
    <<"w", "h", "i", "l", "e">>, <<"a", "l", "t", "h", "o", "u", "g", "h">>,
    <<"t", "h", "o", "u", "g", "h">>, <<"s", "i", "n", "c", "e">>,
    <<"u", "n", "l", "e", "s", "s">>, <<"w", "h", "e", "t", "h", "e", "r">>,
    <<"w", "h", "e", "r", "e", "v", "e", "r">>
  }

\* Keys shorter than this are skipped ("cleanedWord.length < 2").
MinWordLength == 2

\* The heuristic looks only at keys longer than this ("cleanedWord.length > 4").
MinSuspiciousLength == 4

\* Engine confidences are on a 0-100 scale and are divided by this.
PercentScale == 100

\* The Object function and Object.prototype, which a plain object literal
\* inherits under the names below: values that are truthy and no strings.
ObjectFunction == <<"[Function: Object]">>

ObjectPrototype == <<"[Object: null prototype] {}">>

inheritedProperties ==
  << <<<<"c", "o", "n", "s", "t", "r", "u", "c", "t", "o", "r">>, ObjectFunction>>,
     <<<<"_", "_", "p", "r", "o", "t", "o", "_", "_">>, ObjectPrototype>> >>

\* The value "undefined", as a correction that was not found.
Undefined == <<"undefined">>

\* null, the initial value of correction.
Null == <<"null">>

\* table[key] for a table of <<key, value>> pairs; Undefined when absent.
Lookup(table, key) ==
  IF \E i \in 1..Len(table) : table[i][1] = key
    THEN table[CHOOSE i \in 1..Len(table) : table[i][1] = key][2]
    ELSE Undefined

\* this.typoCorrections[cleanedWord]: an own entry, or else a property the
\* object literal inherits from Object.prototype.
typoCorrectionsGet(cleanedWord) ==
  IF Lookup(typoCorrections, cleanedWord) # Undefined
    THEN Lookup(typoCorrections, cleanedWord)
    ELSE Lookup(inheritedProperties, cleanedWord)

\* The indices of the entries the partial-match loop accepts for a word.
partialMatches(originalWord, cleanedWord) ==
  {i \in 1..Len(typoCorrections) :
     \/ includes(cleanedWord, typoCorrections[i][1])
     \/ includes(toLowerCase(originalWord), typoCorrections[i][1])}

Min(S) == CHOOSE x \in S : \A y \in S : x <= y

\* dictionaryCorrection with a partial-match loop that does not break: the
\* last entry that matches wins.
dictionaryCorrection_lastMatch(originalWord, cleanedWord) ==
  IF typoCorrectionsGet(cleanedWord) # Undefined
    THEN typoCorrectionsGet(cleanedWord)
    ELSE IF partialMatches(originalWord, cleanedWord) # {}
      THEN typoCorrections[CHOOSE i \in partialMatches(originalWord, cleanedWord) :
                             \A j \in partialMatches(originalWord, cleanedWord) :
                               j <= i][2]
      ELSE Null

\* The exact match and, failing it, the partial-match loop, which breaks at
\* the first entry of Object.entries(this.typoCorrections) that matches.
dictionaryCorrection(originalWord, cleanedWord) ==
  IF typoCorrectionsGet(cleanedWord) # Undefined
    THEN typoCorrectionsGet(cleanedWord)
    ELSE IF partialMatches(originalWord, cleanedWord) # {}
      THEN typoCorrections[Min(partialMatches(originalWord, cleanedWord))][2]
      ELSE Null

\* suspiciousPatterns.test(originalWord) for /[|]{1,}|[1l]{2,}|[0o]{2,}/i
suspiciousPatterns(originalWord) ==
  \/ \E i \in 1..Len(originalWord) : originalWord[i] = "|"
  \/ \E i \in 1..(Len(originalWord) - 1) :
       /\ originalWord[i] \in {"1", "l", "L"}
       /\ originalWord[i + 1] \in {"1", "l", "L"}
  \/ \E i \in 1..(Len(originalWord) - 1) :
       /\ originalWord[i] \in {"0", "o", "O"}
       /\ originalWord[i + 1] \in {"0", "o", "O"}

\* originalWord.replace(/[|]/g, 'l').replace(/1/g, 'l').replace(/0/g, 'o')
suggestedFor(originalWord) ==
  [i \in 1..Len(originalWord) |->
     IF originalWord[i] \in {"|", "1"} THEN "l"
     ELSE IF originalWord[i] = "0" THEN "o"
     ELSE originalWord[i]]

\* heuristic reporting what it flags at tier low.
heuristic_lowTier(originalWord, cleanedWord, correction, confidence) ==
  IF /\ correction = Null
     /\ cleanedWord \notin commonWords
     /\ Len(cleanedWord) > MinSuspiciousLength
     /\ suspiciousPatterns(originalWord)
    THEN [correction |-> IF suggestedFor(originalWord) # originalWord
                           THEN toLowerCase(suggestedFor(originalWord))
                           ELSE correction,
          confidence |-> "low"]
    ELSE [correction |-> correction, confidence |-> confidence]

\* heuristic without the test that no correction was found yet.
heuristic_overridesDictionary(originalWord, cleanedWord, correction, confidence) ==
  IF /\ cleanedWord \notin commonWords
     /\ Len(cleanedWord) > MinSuspiciousLength
     /\ suspiciousPatterns(originalWord)
    THEN [correction |-> IF suggestedFor(originalWord) # originalWord
                           THEN toLowerCase(suggestedFor(originalWord))
                           ELSE correction,
          confidence |-> "medium"]
    ELSE [correction |-> correction, confidence |-> confidence]

\* The block under "Check against common words": the correction and the
\* confidence it leaves, given those the dictionary checks left.
heuristic(originalWord, cleanedWord, correction, confidence) ==
  IF /\ correction = Null
     /\ cleanedWord \notin commonWords
     /\ Len(cleanedWord) > MinSuspiciousLength
     /\ suspiciousPatterns(originalWord)
    THEN [correction |-> IF suggestedFor(originalWord) # originalWord
                           THEN toLowerCase(suggestedFor(originalWord))
                           ELSE correction,
          confidence |-> "medium"]
    ELSE [correction |-> correction, confidence |-> confidence]

\* The correction and confidence of one word when the loop body reaches
\* "if (correction)".
wordVerdict(wordData) ==
  LET originalWord == wordData.text
      cleanedWord == cleanWord(originalWord)
      correction == dictionaryCorrection(originalWord, cleanedWord)
      confidence == IF correction # Null THEN "high" ELSE "low"
  IN heuristic(originalWord, cleanedWord, correction, confidence)

\* detectWord reporting the cleaned word as the original.
detectWord_cleanedOriginal(wordData) ==
  IF Len(cleanWord(wordData.text)) < MinWordLength
       \/ wordVerdict(wordData).correction = Null
    THEN <<>>
    ELSE << [original |-> cleanWord(wordData.text),
             correction |-> wordVerdict(wordData).correction,
             confidence |-> wordVerdict(wordData).confidence,
             bbox |-> wordData.bbox,
             position |-> [x |-> wordData.bbox.x0, y |-> wordData.bbox.y0]] >>

\* detectWord pushing every word the heuristic flagged, corrected or not.
detectWord_pushesFlagged(wordData) ==
  IF Len(cleanWord(wordData.text)) < MinWordLength
       \/ /\ wordVerdict(wordData).correction = Null
          /\ wordVerdict(wordData).confidence # "medium"
    THEN <<>>
    ELSE << [original |-> wordData.text,
             correction |-> wordVerdict(wordData).correction,
             confidence |-> wordVerdict(wordData).confidence,
             bbox |-> wordData.bbox,
             position |-> [x |-> wordData.bbox.x0, y |-> wordData.bbox.y0]] >>

\* The word record has a text, a box: reading a property a record lacks
\* gives undefined.
hasText(wordData) == "text" \in DOMAIN wordData

hasBbox(wordData) == "bbox" \in DOMAIN wordData

\* word.text
textOf(word) == IF hasText(word) THEN word.text ELSE Undefined

\* One iteration of the loop of detectTypos: what it pushes, as a sequence
\* of no or one candidate. The position is wordData.bbox ? wordData.bbox.x0 : 0.
detectWord(wordData) ==
  IF Len(cleanWord(wordData.text)) < MinWordLength
    THEN <<>>
    ELSE IF wordVerdict(wordData).correction # Null
      THEN << [original |-> wordData.text,
               correction |-> wordVerdict(wordData).correction,
               confidence |-> wordVerdict(wordData).confidence,
               bbox |-> IF hasBbox(wordData) THEN wordData.bbox ELSE Undefined,
               position |-> [x |-> IF hasBbox(wordData) THEN wordData.bbox.x0 ELSE 0,
                             y |-> IF hasBbox(wordData) THEN wordData.bbox.y0 ELSE 0]] >>
      ELSE <<>>

\* detectWords putting each candidate in front of the earlier ones.
RECURSIVE detectWords_reversed(_)
detectWords_reversed(words) ==
  IF words = <<>> THEN <<>>
  ELSE detectWords_reversed(Tail(words)) \o detectWord(Head(words))

\* detectWords reporting every candidate after the first word's at tier
\* medium.
RECURSIVE detectWords_downgradesLater(_)
detectWords_downgradesLater(words) ==
  IF words = <<>> THEN <<>>
  ELSE LET rest == detectWords_downgradesLater(Tail(words))
       IN detectWord(Head(words))
            \o [i \in 1..Len(rest) |-> [rest[i] EXCEPT !.confidence = "medium"]]

RECURSIVE detectWords(_)
detectWords(words) ==
  IF words = <<>> THEN <<>>
  ELSE detectWord(Head(words)) \o detectWords(Tail(words))

IsHighCandidate(typo) == typo.confidence = "high"

\* detectTypos with one suspicious-pattern regex that has the g flag and is
\* kept by the detector: its test starts where the last call left off, so
\* every second call finds no suspicious pattern.
detectTypos_stickyPattern(ocrResults) ==
  IF Len(classify.log) % 2 = 0
    THEN detectWords(ocrResults.words)
    ELSE SelectSeq(detectWords(ocrResults.words), IsHighCandidate)

\* detectTypos(ocrResults)
detectTypos(ocrResults) == detectWords(ocrResults.words)

\* detectTypos raises: cleanWord calls toLowerCase on the text of each word,
\* a TypeError for a word without text, and the loop has no try block.
detectTyposThrows(ocrResults) ==
  \E i \in 1..Len(ocrResults.words) : ~hasText(ocrResults.words[i])

IsMediumCandidate(typo) == typo.confidence = "medium"

IsLowCandidate(typo) == typo.confidence = "low"

IsNotHighCandidate(typo) == typo.confidence # "high"

\* getTypoStats counting every candidate that is not high as medium.
getTypoStats_mediumIsRest(typos) ==
  [total |-> Len(typos),
   high_confidence |-> Len(SelectSeq(typos, IsHighCandidate)),
   medium_confidence |-> Len(SelectSeq(typos, IsNotHighCandidate)),
   low_confidence |-> Len(SelectSeq(typos, IsLowCandidate))]

\* getTypoStats(typos)
getTypoStats(typos) ==
  [total |-> Len(typos),
   high_confidence |-> Len(SelectSeq(typos, IsHighCandidate)),
   medium_confidence |-> Len(SelectSeq(typos, IsMediumCandidate)),
   low_confidence |-> Len(SelectSeq(typos, IsLowCandidate))]

(***************************************************************************)
(* Numbers. A JavaScript number that results from dividing by 100 is kept  *)
(* as an exact fraction, so that a confidence on the 0-1 scale and one on  *)
(* the 0-100 scale are different values.                                   *)
(***************************************************************************)
Frac(n, d) == [num |-> n, den |-> d]

Plus(a, k) == Frac(a.num + k * a.den, a.den)

Less(a, b) == a.num * b.den < b.num * a.den

LessInt(a, k) == a.num < k * a.den

(***************************************************************************)
(* The normalizer.                                                         *)
(***************************************************************************)
\* tesseractData.words is an array (the map call does not throw).
hasWords(tesseractData) == "words" \in DOMAIN tesseractData

\* processWord taking the far corner for the size of the box.
processWord_sizeFromOrigin(word) ==
  [text |-> word.text,
   confidence |-> Frac(word.confidence, PercentScale),
   bbox |-> [x0 |-> word.bbox.x0,
             y0 |-> word.bbox.y0,
             x1 |-> word.bbox.x1,
             y1 |-> word.bbox.y1,
             width |-> word.bbox.x1,
             height |-> word.bbox.y1]]

\* The object the map callback of processOCRResults builds for one word.
processWord(word) ==
  [text |-> word.text,
   confidence |-> Frac(word.confidence, PercentScale),
   bbox |-> [x0 |-> word.bbox.x0,
             y0 |-> word.bbox.y0,
             x1 |-> word.bbox.x1,
             y1 |-> word.bbox.y1,
             width |-> word.bbox.x1 - word.bbox.x0,
             height |-> word.bbox.y1 - word.bbox.y0]]

\* processOCRResults(tesseractData), for data with a word list; without one
\* tesseractData.words.map raises a TypeError.
processOCRResults(tesseractData) ==
  LET words == [i \in 1..Len(tesseractData.words) |->
                  processWord(tesseractData.words[i])]
  IN [text |-> tesseractData.text,
      words |-> words,
      confidence |-> Frac(tesseractData.confidence, PercentScale),
      word_count |-> Len(words)]

(***************************************************************************)
(* JSON. The text JSON.stringify writes is a sequence of tokens: the       *)
(* punctuation, and one token for each string and each number.             *)
(***************************************************************************)
JsonString(s) == <<[t |-> "string", v |-> s]>>

JsonNumber(n) == <<[t |-> "number", v |-> n]>>

\* A property of an object that is serialized, with the text of its value.
\* JSON.stringify leaves out a property whose value is a function.
JsonProperty(key, json) == [key |-> key, json |-> json, omitted |-> FALSE]

JsonOmitted(key) == [key |-> key, json |-> <<>>, omitted |-> TRUE]

JsonKept(property) == ~property.omitted

RECURSIVE JsonJoin(_)
JsonJoin(parts) ==
  IF parts = <<>> THEN <<>>
  ELSE IF Len(parts) = 1 THEN Head(parts)
  ELSE Head(parts) \o <<[t |-> ","]>> \o JsonJoin(Tail(parts))

JsonArray(elements) == <<[t |-> "["]>> \o JsonJoin(elements) \o <<[t |-> "]"]>>

JsonObject(properties) ==
  LET kept == SelectSeq(properties, JsonKept)
  IN <<[t |-> "{"]>>
       \o JsonJoin([i \in 1..Len(kept) |->
                      JsonString(kept[i].key) \o <<[t |-> ":"]>> \o kept[i].json])
       \o <<[t |-> "}"]>>

\* JSON.stringify of a bbox that processOCRResults built.
stringifyBbox(bbox) ==
  JsonObject(<<JsonProperty("x0", JsonNumber(bbox.x0)),
               JsonProperty("y0", JsonNumber(bbox.y0)),
               JsonProperty("x1", JsonNumber(bbox.x1)),
               JsonProperty("y1", JsonNumber(bbox.y1)),
               JsonProperty("width", JsonNumber(bbox.width)),
               JsonProperty("height", JsonNumber(bbox.height))>>)

stringifyWord(word) ==
  JsonObject(<<JsonProperty("text", JsonString(word.text)),
               JsonProperty("confidence", JsonNumber(word.confidence)),
               JsonProperty("bbox", stringifyBbox(word.bbox))>>)

stringifyOcrResults(ocrResults) ==
  JsonObject(<<JsonProperty("text", JsonString(ocrResults.text)),
               JsonProperty("words",
                 JsonArray([i \in 1..Len(ocrResults.words) |->
                              stringifyWord(ocrResults.words[i])])),
               JsonProperty("confidence", JsonNumber(ocrResults.confidence)),
               JsonProperty("word_count", JsonNumber(ocrResults.word_count))>>)

\* The correction of a candidate is a string, or for the words "constructor"
\* and "__proto__" the Object function (left out) or Object.prototype (an
\* object without enumerable properties).
stringifyCorrection(correction) ==
  IF correction = ObjectFunction THEN JsonOmitted("correction")
  ELSE IF correction = ObjectPrototype
    THEN JsonProperty("correction", JsonObject(<<>>))
    ELSE JsonProperty("correction", JsonString(correction))

stringifyTypo(typo) ==
  JsonObject(<<JsonProperty("original", JsonString(typo.original)),
               stringifyCorrection(typo.correction),
               JsonProperty("confidence", JsonString(typo.confidence)),
               JsonProperty("bbox", stringifyBbox(typo.bbox)),
               JsonProperty("position",
                 JsonObject(<<JsonProperty("x", JsonNumber(typo.position.x)),
                              JsonProperty("y", JsonNumber(typo.position.y))>>))>>)

\* stringifyTypos leaving out the candidates that have a property which is
\* left out.
stringifyTypos_skipsFunctions(typos) ==
  LET kept == [i \in {j \in 1..Len(typos) : typos[j].correction # ObjectFunction} |->
                 stringifyTypo(typos[i])]
  IN JsonArray([i \in 1..Cardinality(DOMAIN kept) |->
                  kept[CHOOSE j \in DOMAIN kept :
                         Cardinality({k \in DOMAIN kept : k <= j}) = i]])

stringifyTypos(typos) ==
  JsonArray([i \in 1..Len(typos) |-> stringifyTypo(typos[i])])

\* JSON.stringify(results, null, 2) for the results object of
\* downloadResults; the image and the times are numbers here.
stringifyResults(results) ==
  JsonObject(<<JsonProperty("timestamp", JsonNumber(results.timestamp)),
               JsonProperty("image_info",
                 JsonObject(<<JsonProperty("name", JsonNumber(results.image_info))>>)),
               JsonProperty("ocr_results", stringifyOcrResults(results.ocr_results)),
               JsonProperty("typos", stringifyTypos(results.typos)),
               JsonProperty("processing_time", JsonNumber(results.processing_time))>>)

\* JSON.parse: the value a text denotes and the tokens after it. An object
\* is the sequence of its members, an array the sequence of its elements.
RECURSIVE JsonParseValue(_)
RECURSIVE JsonParseElements(_, _)
RECURSIVE JsonParseMembers(_, _)
JsonParseValue(tokens) ==
  IF Head(tokens).t = "["
    THEN IF tokens[2].t = "]"
           THEN [value |-> [type |-> "array", elements |-> <<>>],
                 rest |-> Tail(Tail(tokens))]
           ELSE JsonParseElements(Tail(tokens), <<>>)
  ELSE IF Head(tokens).t = "{"
    THEN IF tokens[2].t = "}"
           THEN [value |-> [type |-> "object", members |-> <<>>],
                 rest |-> Tail(Tail(tokens))]
           ELSE JsonParseMembers(Tail(tokens), <<>>)
  ELSE [value |-> [type |-> Head(tokens).t, v |-> Head(tokens).v],
        rest |-> Tail(tokens)]

JsonParseElements(tokens, parsed) ==
  LET first == JsonParseValue(tokens)
  IN IF Head(first.rest).t = ","
       THEN JsonParseElements(Tail(first.rest), Append(parsed, first.value))
       ELSE [value |-> [type |-> "array", elements |-> Append(parsed, first.value)],
             rest |-> Tail(first.rest)]

JsonParseMembers(tokens, parsed) ==
  LET first == JsonParseValue(Tail(Tail(tokens)))
      member == [key |-> Head(tokens).v, value |-> first.value]
  IN IF Head(first.rest).t = ","
       THEN JsonParseMembers(Tail(first.rest), Append(parsed, member))
       ELSE [value |-> [type |-> "object", members |-> Append(parsed, member)],
             rest |-> Tail(first.rest)]

JSONparse(text) == JsonParseValue(text).value

\* object[key] for a parsed object.
JsonGet(object, key) ==
  object.members[CHOOSE i \in 1..Len(object.members) :
                   object.members[i].key = key].value

(***************************************************************************)
(* The annotation layout. A draw instruction records what one group of     *)
(* canvas calls of drawAnnotations or drawLegend paints.                   *)
(***************************************************************************)
LegendOffsetX == 200

LegendY == 20

LegendWidth == 180

LegendHeight == 80

TypoLineWidth == 3

PlainLineWidth == 1

LabelOffsetY == 5

Red == "#dc3545"

Amber == "#ffc107"

Green == "#28a745"

\* The prefix of a correction label: a rightwards arrow and a space.
LabelPrefix == <<"U+2192", " ">>

\* typoMap.has(text), for the Map that typos.forEach fills by typo.original.
typoMapHas(typos, text) == \E i \in 1..Len(typos) : typos[i].original = text

\* typoMap.get(text): a later typo of the same text replaced the earlier ones.
typoMapGet(typos, text) ==
  typos[CHOOSE i \in 1..Len(typos) :
          /\ typos[i].original = text
          /\ \A j \in (i + 1)..Len(typos) : typos[j].original # text]

\* drawWord leaving the label out for a candidate without correction.
drawWord_labelIfCorrection(typos, word) ==
  IF typoMapHas(typos, word.text)
    THEN LET outline ==
               [kind |-> "typoHighlight",
                rect |-> [x |-> word.bbox.x0, y |-> word.bbox.y0,
                          width |-> word.bbox.width, height |-> word.bbox.height],
                color |-> IF typoMapGet(typos, word.text).confidence = "high"
                            THEN Red ELSE Amber,
                lineWidth |-> TypoLineWidth,
                alpha |-> Frac(1, 1)]
         IN IF typoMapGet(typos, word.text).correction = Null
              THEN outline
              ELSE [kind |-> outline.kind, rect |-> outline.rect,
                    color |-> outline.color, lineWidth |-> outline.lineWidth,
                    alpha |-> outline.alpha,
                    label |-> [text |-> LabelPrefix
                                          \o typoMapGet(typos, word.text).correction,
                               x |-> word.bbox.x0,
                               y |-> word.bbox.y0 - LabelOffsetY]]
    ELSE [kind |-> "plainOutline",
          rect |-> [x |-> word.bbox.x0, y |-> word.bbox.y0,
                    width |-> word.bbox.width, height |-> word.bbox.height],
          color |-> Green,
          lineWidth |-> PlainLineWidth,
          alpha |-> Frac(3, 10)]

\* What the callback of ocrResults.words.forEach paints for one word.
drawWord(typos, word) ==
  IF typoMapHas(typos, textOf(word))
    THEN [kind |-> "typoHighlight",
          rect |-> [x |-> word.bbox.x0, y |-> word.bbox.y0,
                    width |-> word.bbox.width, height |-> word.bbox.height],
          color |-> IF typoMapGet(typos, textOf(word)).confidence = "high"
                      THEN Red ELSE Amber,
          lineWidth |-> TypoLineWidth,
          alpha |-> Frac(1, 1),
          label |-> [text |-> LabelPrefix \o typoMapGet(typos, textOf(word)).correction,
                     x |-> word.bbox.x0,
                     y |-> word.bbox.y0 - LabelOffsetY]]
    ELSE [kind |-> "plainOutline",
          rect |-> [x |-> word.bbox.x0, y |-> word.bbox.y0,
                    width |-> word.bbox.width, height |-> word.bbox.height],
          color |-> Green,
          lineWidth |-> PlainLineWidth,
          alpha |-> Frac(3, 10)]

\* drawLegend with the panel flush against the right edge.
drawLegend_noMargin(canvasWidth, canvasHeight) ==
  [kind |-> "legend",
   rect |-> [x |-> canvasWidth - LegendWidth, y |-> LegendY,
             width |-> LegendWidth, height |-> LegendHeight],
   rows |-> <<Red, Amber, Green>>]

\* drawLegend with the panel in the bottom right corner.
drawLegend_bottom(canvasWidth, canvasHeight) ==
  [kind |-> "legend",
   rect |-> [x |-> canvasWidth - LegendOffsetX,
             y |-> canvasHeight - LegendY - LegendHeight,
             width |-> LegendWidth, height |-> LegendHeight],
   rows |-> <<Red, Amber, Green>>]

\* drawLegend(ctx, canvasWidth, canvasHeight)
drawLegend(canvasWidth, canvasHeight) ==
  [kind |-> "legend",
   rect |-> [x |-> canvasWidth - LegendOffsetX, y |-> LegendY,
             width |-> LegendWidth, height |-> LegendHeight],
   rows |-> <<Red, Amber, Green>>]

\* drawAnnotations leaving the legend out when there is nothing to explain.
drawAnnotations_legendIfWords(canvasWidth, canvasHeight, ocrResults, typos) ==
  [i \in 1..Len(ocrResults.words) |-> drawWord(typos, ocrResults.words[i])]
    \o IF ocrResults.words = <<>> THEN <<>>
       ELSE <<drawLegend(canvasWidth, canvasHeight)>>

\* drawAnnotations on a context that is never reset and whose plain branch
\* leaves globalAlpha at 0.3: once a plain outline was painted, by this or
\* an earlier call, typo highlights come out at that opacity.
drawAnnotations_leftoverAlpha(canvasWidth, canvasHeight, ocrResults, typos) ==
  [i \in 1..Len(ocrResults.words) |->
     LET instruction == drawWord(typos, ocrResults.words[i])
     IN IF instruction.kind = "typoHighlight" /\ layout.painted
          THEN [instruction EXCEPT !.alpha = Frac(3, 10)]
          ELSE instruction]
    \o <<drawLegend(canvasWidth, canvasHeight)>>

\* drawAnnotations(canvas, ctx, img, ocrResults, typos), the canvas taking
\* the size of the image: the instructions in painting order.
drawAnnotations(canvasWidth, canvasHeight, ocrResults, typos) ==
  [i \in 1..Len(ocrResults.words) |-> drawWord(typos, ocrResults.words[i])]
    \o <<drawLegend(canvasWidth, canvasHeight)>>

\* drawAnnotations raises: the callback reads bbox.x0 of each word, a
\* TypeError for a word without box, and nothing catches it.
drawAnnotationsThrows(ocrResults) ==
  \E i \in 1..Len(ocrResults.words) : ~hasBbox(ocrResults.words[i])

\* What is on the canvas when drawAnnotations ends: all of it, or, when it
\* raises, what the words before the first one without box painted. The
\* legend is drawn after the loop.
drawAnnotationsPainted(canvasWidth, canvasHeight, ocrResults, typos) ==
  IF drawAnnotationsThrows(ocrResults)
    THEN LET first == CHOOSE i \in 1..Len(ocrResults.words) :
                        /\ ~hasBbox(ocrResults.words[i])
                        /\ \A j \in 1..(i - 1) : hasBbox(ocrResults.words[j])
         IN [i \in 1..(first - 1) |-> drawWord(typos, ocrResults.words[i])]
    ELSE drawAnnotations(canvasWidth, canvasHeight, ocrResults, typos)

TextTeh == <<"t", "e", "h">>

TextTehComma == <<"T", "e", "h", ",">>

TextTeUnderscoreH == <<"t", "e", "_", "h">>

TextCapitalI == <<"I">>

TextAPipe == <<"a", "|">>

TextUnderscoresPipe == <<"_", "_", "_", "_", "_", "|">>

TextCantwont == <<"c", "a", "n", "t", "w", "o", "n", "t">>

TextBalloon == <<"b", "a", "l", "l", "o", "o", "n">>

TextHe11o == <<"h", "e", "1", "1", "o">>

TextWhether == <<"w", "h", "e", "t", "h", "e", "r">>

TextBeleive == <<"b", "e", "l", "e", "i", "v", "e">>

TextConstructor == <<"c", "o", "n", "s", "t", "r", "u", "c", "t", "o", "r">>

TextPipes == <<"|", "|", "|", "|", "|">>

TextDe == <<"U+7684">>

TextSumerPipe == <<"s", "u", "m", "e", "r", "|">>

TextWontcant == <<"w", "o", "n", "t", "c", "a", "n", "t">>

\* The first key of chineseTypoCorrections.
TextChineseKey == chineseTypoCorrections[1][1]

SummerSentence ==
  << <<"I">>,
     <<"c", "a", "n", "t">>,
     <<"b", "e", "l", "e", "i", "v", "e">>,
     <<"t", "h", "e">>,
     <<"s", "u", "m", "e", "r">>,
     <<"i", "s">>,
     <<"o", "v", "e", "r">> >>

(***************************************************************************)
(* Inputs: what the OCR engine may return.                                 *)
(***************************************************************************)
MaxWords == 2

RECURSIVE SeqsUpTo(_, _)
SeqsUpTo(S, n) ==
  IF n = 0 THEN {<<>>}
  ELSE SeqsUpTo(S, n - 1) \cup
       {Append(s, x) : s \in {t \in SeqsUpTo(S, n - 1) : Len(t) = n - 1}, x \in S}

WordTexts ==
  {TextTeh, TextTehComma, TextTeUnderscoreH, TextCapitalI, TextAPipe,
   TextUnderscoresPipe, TextCantwont, TextBalloon, TextHe11o, TextWhether,
   TextBeleive, TextConstructor, TextPipes, TextDe, TextSumerPipe,
   TextWontcant, TextChineseKey}

\* The engine's box of the i-th word of a line of text.
LineBox(i) == [x0 |-> 10 + 60 * (i - 1), y0 |-> 10, x1 |-> 60 * i, y1 |-> 30]

RECURSIVE JoinTexts(_)
JoinTexts(texts) ==
  IF texts = <<>> THEN <<>>
  ELSE IF Len(texts) = 1 THEN Head(texts)
  ELSE Head(texts) \o <<" ">> \o JoinTexts(Tail(texts))

\* What the engine returns for a line of words read at the given confidence.
EngineLine(texts, confidence) ==
  [text |-> JoinTexts(texts),
   confidence |-> confidence,
   words |-> [i \in 1..Len(texts) |->
                [text |-> texts[i], confidence |-> confidence, bbox |-> LineBox(i)]]]

ClassifierInputs ==
  {EngineLine(texts, 92) : texts \in SeqsUpTo(WordTexts, MaxWords) \cup {SummerSentence}}

\* The value of a stage variable in a specification that does not use it.
NotStarted == [started |-> FALSE]

(***************************************************************************)
(* The application: the fields of CompositionCorrectorApp, the Tesseract   *)
(* workers, and the runs. A run is one call of handleImageUpload; its pc   *)
(* names the await (or the timer) it is suspended at.                      *)
(***************************************************************************)
MaxRuns == 1

\* null, for a field that holds an object.
NullObject == [null |-> TRUE]

\* null, for currentWorker and currentImage, which hold identifiers here.
NoWorker == 0

NoImage == 0

Languages == {"eng", "chi_sim", "chi_tra"}

\* selectedLanguage.startsWith('chi_')
startsWithChi(selectedLanguage) == selectedLanguage \in {"chi_sim", "chi_tra"}

\* selectedLanguage.startsWith('chi_') || ... === 'jpn' || ... === 'kor'
isCJK(selectedLanguage) ==
  startsWithChi(selectedLanguage) \/ selectedLanguage \in {"jpn", "kor"}

\* The characters of the class [\u4e00-\u9fff] that words are made of here.
ChineseChars == {"U+7684"}

\* (text.match(/[\u4e00-\u9fff]/g) || []).length
chineseChars(text) == Cardinality({i \in 1..Len(text) : text[i] \in ChineseChars})

\* /[^a-zA-Z0-9\s\u4e00-\u9fff\u3000-\u303f\uff00-\uffef]/g.test(text)
hasGibberish(text) ==
  \E i \in 1..Len(text) :
    text[i] \notin Range(LowerLetters) \cup Range(UpperLetters) \cup Digits
                     \cup {" "} \cup ChineseChars

WarnConfidence == 30

RetryConfidence == 20

RetryMargin == 10

\* The condition under which processImageWithTesseract hands the run over
\* to retryWithTraditionalChinese.
shouldRetry(selectedLanguage, results) ==
  /\ startsWithChi(selectedLanguage)
  /\ \/ LessInt(results.confidence, WarnConfidence)
     \/ chineseChars(results.text) = 0
     \/ hasGibberish(results.text)
  /\ LessInt(results.confidence, RetryConfidence)
  /\ selectedLanguage = "chi_sim"

\* "retryResults.confidence > this.ocrResults.confidence + 10"
retryIsBetter(original, retryResults) ==
  Less(Plus(original.confidence, RetryMargin), retryResults.confidence)

\* resetApp()
resetApp(a) ==
  [a EXCEPT !.processingSection = FALSE,
            !.resultsSection = FALSE,
            !.currentImage = NoImage,
            !.ocrResults = NullObject]

\* The catch block of handleImageUpload: the alert that tells a timeout
\* from any other error, then resetApp().
handleUploadError(a, kind) == resetApp([a EXCEPT !.alert = kind])

\* worker.terminate() called on worker w.
terminate(ws, w) == [ws EXCEPT ![w].terminated = TRUE]

\* Tesseract.createWorker resolved for run r: the new worker is the last.
createWorker(ws, lang, r) ==
  Append(ws, [language |-> lang, owner |-> r, terminated |-> FALSE])

\* A run that returned or threw for good.
ended(run, outcome) == [run EXCEPT !.pc = "done", !.outcome = outcome]

\* The catch block of processImageWithTesseract for an error of the given
\* kind: it awaits the termination of the current worker, if there is one,
\* and rethrows to handleImageUpload.
catch(a, run, ws, kind) ==
  IF a.currentWorker # NoWorker
    THEN [app |-> a,
          run |-> [run EXCEPT !.pc = "catchTerminate", !.err = kind],
          workers |-> terminate(ws, a.currentWorker)]
    ELSE [app |-> handleUploadError(a, kind),
          run |-> ended(run, kind),
          workers |-> ws]

\* The run awaits Promise.race([recognizePromise, timeoutPromise]).
racesTimeout(run) == run.pc = "recognize"

\* processImageWithTesseract from "Check if cancelled before starting
\* recognition" to the await of the race of recognize and the timeout.
beginRecognize(a, run, ws) ==
  IF a.processingCancelled
    THEN [app |-> a, run |-> ended(run, "cancelled"), workers |-> ws]
    ELSE IF a.currentWorker = NoWorker
      THEN catch(a, run, ws, "error")
      ELSE [app |-> a,
            run |-> [run EXCEPT !.pc = "recognize",
                                !.worker = a.currentWorker],
            workers |-> ws]

\* The catch block of retryWithTraditionalChinese returning nothing.
retryCatch_returnsNothing(a, run) ==
  [ended(run, "retryFailed") EXCEPT !.returned = NullObject]

\* The catch block of retryWithTraditionalChinese: "return this.ocrResults".
retryCatch(a, run) ==
  [ended(run, "retryFailed") EXCEPT !.returned = a.ocrResults]

\* A run before its upload. Besides the position and the locals of the run
\* it records what the engine answered to it, when it was uploaded and
\* whether cancelProcessing was called while it was in flight.
IdleRun ==
  [pc |-> "idle", lang |-> "eng", worker |-> NoWorker, typos |-> <<>>,
   err |-> "none", outcome |-> "none",
   answers |-> <<>>, returned |-> NullObject,
   startedAt |-> 0, cancelled |-> FALSE]

\* A run between its upload and its end.
inFlight(run) == run.pc \notin {"idle", "done"}

AppInit(uploads) ==
  /\ app = [currentImage |-> NoImage, ocrResults |-> NullObject, startTime |-> 0,
            currentWorker |-> NoWorker, processingCancelled |-> FALSE,
            processingSection |-> FALSE, resultsSection |-> FALSE,
            now |-> 0, alert |-> "none", shown |-> NullObject,
            report |-> NullObject]
  /\ runs = [r \in 1..uploads |-> IdleRun]
  /\ workers = <<>>

\* The three results of a step of one run take effect together.
Step(r, result) ==
  /\ app' = result.app
  /\ runs' = [runs EXCEPT ![r] = result.run]
  /\ workers' = result.workers
  /\ UNCHANGED stageVars

\* handleImageUpload(file) for an image file, up to its first await.
Upload(r) ==
  /\ runs[r].pc = "idle"
  /\ \A q \in DOMAIN runs : q < r => runs[q].pc # "idle"
  /\ app' = [app EXCEPT !.currentImage = r,
                        !.processingSection = TRUE,
                        !.resultsSection = FALSE,
                        !.now = app.now + 1,
                        !.startTime = app.now + 1,
                        !.processingCancelled = FALSE]
  /\ runs' = [runs EXCEPT ![r].pc = "preprocessImage",
                          ![r].startedAt = app.now + 1]
  /\ UNCHANGED <<workers, stageVars>>

\* preprocessImage resolved: processImageWithTesseract up to the await of
\* createWorker; the user declines a large image or not.
PreprocessImageDone(r) ==
  /\ runs[r].pc = "preprocessImage"
  /\ \E declined \in BOOLEAN, lang \in Languages :
       IF declined
         THEN /\ lang = "eng"
              /\ Step(r, [app |-> resetApp(app),
                          run |-> ended(runs[r], "declined"),
                          workers |-> workers])
         ELSE Step(r, [app |-> app,
                       run |-> [runs[r] EXCEPT !.pc = "createWorker", !.lang = lang],
                       workers |-> workers])

CreateWorkerResolves(r) ==
  /\ runs[r].pc = "createWorker"
  /\ Step(r, [app |-> [app EXCEPT !.currentWorker = Len(workers) + 1],
              run |-> [runs[r] EXCEPT !.pc = "setParameters",
                                      !.worker = Len(workers) + 1],
              workers |-> createWorker(workers, runs[r].lang, r)])

CreateWorkerRejects(r) ==
  /\ runs[r].pc = "createWorker"
  /\ Step(r, catch(app, runs[r], workers, "error"))

\* setParameters resolved: on to the CJK preprocessing, or to recognition.
SetParametersResolves(r) ==
  /\ runs[r].pc = "setParameters"
  /\ ~workers[runs[r].worker].terminated
  /\ IF isCJK(runs[r].lang)
       THEN Step(r, [app |-> app,
                     run |-> [runs[r] EXCEPT !.pc = "preprocessCJK"],
                     workers |-> workers])
       ELSE Step(r, beginRecognize(app, runs[r], workers))

SetParametersRejects(r) ==
  /\ runs[r].pc = "setParameters"
  /\ ~workers[runs[r].worker].terminated
  /\ Step(r, catch(app, runs[r], workers, "error"))

PreprocessCJKDone(r) ==
  /\ runs[r].pc = "preprocessCJK"
  /\ Step(r, beginRecognize(app, runs[r], workers))

\* What the engine may answer to a first-pass recognize call.
FirstPassOutputs ==
  {EngineLine(<<TextDe>>, 15), EngineLine(<<TextDe>>, 92),
   EngineLine(<<TextTeh, TextConstructor>>, 92),
   [text |-> <<>>, confidence |-> 0]}

\* What the engine may answer to the recognize call of the retry.
RetryOutputs ==
  {EngineLine(<<TextDe>>, 23), EngineLine(<<TextDe>>, 30),
   [text |-> <<>>, confidence |-> 0]}

\* The engine threw instead of answering.
Threw == [threw |-> TRUE]

\* retryWithTraditionalChinese up to its first await.
beginRetry(a, run, ws) ==
  IF a.currentWorker # NoWorker
    THEN [app |-> a,
          run |-> [run EXCEPT !.pc = "retryTerminate"],
          workers |-> terminate(ws, a.currentWorker)]
    ELSE [app |-> a,
          run |-> [run EXCEPT !.pc = "retryCreateWorker"],
          workers |-> ws]

\* processImageWithTesseract after the results were stored and no retry was
\* started: detectTypos, then the clean up of the worker.
finishFirstPass(a, run, ws) ==
  IF a.currentWorker # NoWorker
    THEN [app |-> a,
          run |-> [run EXCEPT !.pc = "terminate", !.typos = detectTypos(a.ocrResults)],
          workers |-> terminate(ws, a.currentWorker)]
    ELSE [app |-> a,
          run |-> [run EXCEPT !.pc = "showTimer", !.typos = detectTypos(a.ocrResults)],
          workers |-> ws]

\* afterRecognize taking a missing word list for an empty one.
afterRecognize_emptyWords(a, run, ws, data) ==
  IF a.processingCancelled
    THEN [app |-> a, run |-> ended(run, "cancelled"), workers |-> ws]
    ELSE LET stored == [a EXCEPT !.ocrResults =
                          IF hasWords(data)
                            THEN processOCRResults(data)
                            ELSE [text |-> data.text, words |-> <<>>,
                                  confidence |-> Frac(data.confidence, PercentScale),
                                  word_count |-> 0]]
         IN IF shouldRetry(run.lang, stored.ocrResults)
              THEN beginRetry(stored, run, ws)
              ELSE finishFirstPass(stored, run, ws)

\* processImageWithTesseract from "Check if cancelled after recognition" on,
\* for the data the engine answered.
afterRecognize(a, run, ws, data) ==
  IF a.processingCancelled
    THEN [app |-> a, run |-> ended(run, "cancelled"), workers |-> ws]
    ELSE IF ~hasWords(data)
      THEN catch(a, run, ws, "error")
      ELSE LET stored == [a EXCEPT !.ocrResults = processOCRResults(data)]
           IN IF shouldRetry(run.lang, stored.ocrResults)
                THEN beginRetry(stored, run, ws)
                ELSE finishFirstPass(stored, run, ws)

\* The race was won by recognize, which resolved.
RecognizeResolves(r) ==
  /\ runs[r].pc = "recognize"
  /\ ~workers[runs[r].worker].terminated
  /\ \E data \in FirstPassOutputs :
       Step(r, afterRecognize(app, [runs[r] EXCEPT !.answers = Append(@, data)],
                              workers, data))

\* The race was won by recognize, which rejected.
RecognizeRejects(r) ==
  /\ runs[r].pc = "recognize"
  /\ ~workers[runs[r].worker].terminated
  /\ Step(r, catch(app, [runs[r] EXCEPT !.answers = Append(@, Threw)],
                   workers, "error"))

\* The callback of setTimeout(..., 120000) runs while the run awaits the
\* race of recognize and timeoutPromise: the race rejects with the timeout
\* error. Once the race is settled the callback changes nothing.
TimeoutFires(r) ==
  /\ racesTimeout(runs[r])
  /\ Step(r, catch(app, runs[r], workers, "timeout"))

\* The terminate awaited by the catch block resolved: the error reaches
\* the catch block of handleImageUpload.
CatchTerminateDone(r) ==
  /\ runs[r].pc = "catchTerminate"
  /\ Step(r, [app |-> handleUploadError([app EXCEPT !.currentWorker = NoWorker],
                                        runs[r].err),
              run |-> ended(runs[r], runs[r].err),
              workers |-> workers])

\* The terminate of the clean up resolved: setTimeout(showResults, 500).
TerminateDone(r) ==
  /\ runs[r].pc = "terminate"
  /\ Step(r, [app |-> [app EXCEPT !.currentWorker = NoWorker],
              run |-> [runs[r] EXCEPT !.pc = "showTimer"],
              workers |-> workers])

\* The timer callback: showResults(this.ocrResults, typos), which switches
\* the sections and then reads ocrResults.word_count, a TypeError on null.
\* The image, and with it the canvas, is 400 wide and 300 high.
ShowResults(r) ==
  /\ runs[r].pc = "showTimer"
  /\ LET sections == [app EXCEPT !.processingSection = FALSE,
                                 !.resultsSection = TRUE]
     IN IF app.ocrResults = NullObject
          THEN Step(r, [app |-> sections,
                        run |-> ended(runs[r], "showFailed"),
                        workers |-> workers])
          ELSE Step(r, [app |-> [sections EXCEPT !.shown =
                                   [run |-> r,
                                    ocrResults |-> app.ocrResults,
                                    typos |-> runs[r].typos,
                                    at |-> app.now,
                                    processingTime |-> app.now - app.startTime,
                                    instructions |->
                                      drawAnnotations(400, 300,
                                                      app.ocrResults, runs[r].typos)]],
                        run |-> ended(runs[r], "shown"),
                        workers |-> workers])

RetryTerminateDone(r) ==
  /\ runs[r].pc = "retryTerminate"
  /\ Step(r, [app |-> [app EXCEPT !.currentWorker = NoWorker],
              run |-> [runs[r] EXCEPT !.pc = "retryCreateWorker"],
              workers |-> workers])

RetryCreateWorkerResolves(r) ==
  /\ runs[r].pc = "retryCreateWorker"
  /\ Step(r, [app |-> [app EXCEPT !.currentWorker = Len(workers) + 1],
              run |-> [runs[r] EXCEPT !.pc = "retrySetParameters",
                                      !.worker = Len(workers) + 1],
              workers |-> createWorker(workers, "chi_tra", r)])

RetryCreateWorkerRejects(r) ==
  /\ runs[r].pc = "retryCreateWorker"
  /\ Step(r, [app |-> app, run |-> retryCatch(app, runs[r]), workers |-> workers])

RetrySetParametersResolves(r) ==
  /\ runs[r].pc = "retrySetParameters"
  /\ ~workers[runs[r].worker].terminated
  /\ Step(r, [app |-> app,
              run |-> [runs[r] EXCEPT !.pc = "retryPreprocess"],
              workers |-> workers])

RetrySetParametersRejects(r) ==
  /\ runs[r].pc = "retrySetParameters"
  /\ ~workers[runs[r].worker].terminated
  /\ Step(r, [app |-> app, run |-> retryCatch(app, runs[r]), workers |-> workers])

\* preprocessImageForChinese(file, true) resolved: recognize is called on
\* this.currentWorker and awaited, with no timeout.
RetryPreprocessDone(r) ==
  /\ runs[r].pc = "retryPreprocess"
  /\ IF app.currentWorker = NoWorker
       THEN Step(r, [app |-> app, run |-> retryCatch(app, runs[r]),
                     workers |-> workers])
       ELSE Step(r, [app |-> app,
                     run |-> [runs[r] EXCEPT !.pc = "retryRecognize",
                                             !.worker = app.currentWorker],
                     workers |-> workers])

\* afterRetry adding the margin to the stored confidence when it keeps the
\* first result.
afterRetry_marginInPlace(a, run, data) ==
  IF ~hasWords(data) \/ a.ocrResults = NullObject
    THEN [app |-> a, run |-> retryCatch(a, run)]
    ELSE LET chosen == IF retryIsBetter(a.ocrResults, processOCRResults(data))
                         THEN processOCRResults(data)
                         ELSE [a.ocrResults EXCEPT
                                 !.confidence = Plus(@, RetryMargin)]
         IN [app |-> [a EXCEPT !.ocrResults = chosen],
             run |-> [ended(run, "retryReturned") EXCEPT !.returned = chosen]]

\* retryWithTraditionalChinese from "Process results" to its return.
afterRetry(a, run, data) ==
  IF ~hasWords(data) \/ a.ocrResults = NullObject
    THEN [app |-> a, run |-> retryCatch(a, run)]
    ELSE LET chosen == IF retryIsBetter(a.ocrResults, processOCRResults(data))
                         THEN processOCRResults(data)
                         ELSE a.ocrResults
         IN [app |-> [a EXCEPT !.ocrResults = chosen],
             run |-> [ended(run, "retryReturned") EXCEPT !.returned = chosen]]

RetryRecognizeResolves(r) ==
  /\ runs[r].pc = "retryRecognize"
  /\ ~workers[runs[r].worker].terminated
  /\ \E data \in RetryOutputs :
       LET result == afterRetry(app, [runs[r] EXCEPT !.answers = Append(@, data)], data)
       IN Step(r, [app |-> result.app, run |-> result.run, workers |-> workers])

RetryRecognizeRejects(r) ==
  /\ runs[r].pc = "retryRecognize"
  /\ ~workers[runs[r].worker].terminated
  /\ Step(r, [app |-> app,
              run |-> retryCatch(app, [runs[r] EXCEPT !.answers = Append(@, Threw)]),
              workers |-> workers])

\* cancelProcessing(), the button of the processing section.
CancelProcessing ==
  /\ app.processingSection
  /\ app' = resetApp([app EXCEPT !.processingCancelled = TRUE,
                                 !.currentWorker = NoWorker])
  /\ workers' = IF app.currentWorker # NoWorker
                  THEN terminate(workers, app.currentWorker)
                  ELSE workers
  /\ runs' = [r \in DOMAIN runs |->
                IF inFlight(runs[r]) THEN [runs[r] EXCEPT !.cancelled = TRUE]
                                     ELSE runs[r]]
  /\ UNCHANGED stageVars

\* resetApp(), the button of the results section.
ResetApp ==
  /\ app.resultsSection
  /\ app' = resetApp(app)
  /\ UNCHANGED <<runs, workers, stageVars>>

\* The results object that downloadResults builds.
downloadResults(a) ==
  [timestamp |-> a.now,
   image_info |-> a.currentImage,
   ocr_results |-> a.ocrResults,
   typos |-> detectTypos(a.ocrResults),
   processing_time |-> a.now - a.startTime]

\* downloadResults(), the button of the results section: a TypeError when
\* currentImage or ocrResults is null, the download of the JSON text of the
\* results object otherwise.
DownloadResults ==
  /\ app.resultsSection
  /\ app.currentImage # NoImage
  /\ app.ocrResults # NullObject
  /\ app' = [app EXCEPT !.report = [results |-> downloadResults(app),
                                    text |-> stringifyResults(downloadResults(app))]]
  /\ UNCHANGED <<runs, workers, stageVars>>

RunStep(r) ==
  \/ Upload(r)
  \/ PreprocessImageDone(r)
  \/ CreateWorkerResolves(r)
  \/ CreateWorkerRejects(r)
  \/ SetParametersResolves(r)
  \/ SetParametersRejects(r)
  \/ PreprocessCJKDone(r)
  \/ RecognizeResolves(r)
  \/ RecognizeRejects(r)
  \/ TimeoutFires(r)
  \/ CatchTerminateDone(r)
  \/ TerminateDone(r)
  \/ ShowResults(r)
  \/ RetryTerminateDone(r)
  \/ RetryCreateWorkerResolves(r)
  \/ RetryCreateWorkerRejects(r)
  \/ RetrySetParametersResolves(r)
  \/ RetrySetParametersRejects(r)
  \/ RetryPreprocessDone(r)
  \/ RetryRecognizeResolves(r)
  \/ RetryRecognizeRejects(r)

RunNext ==
  \/ \E r \in 1..MaxRuns : RunStep(r)
  \/ CancelProcessing
  \/ ResetApp
  \/ DownloadResults

RunInit ==
  /\ AppInit(MaxRuns)
  /\ classify = NotStarted
  /\ layout = NotStarted

RunSpec == RunInit /\ [][RunNext]_vars

\* The event loop runs every callback that is ready: a run that can take a
\* step (a promise settled, a timer due) eventually takes one.
RunLiveSpec == RunSpec /\ WF_vars(\E r \in 1..MaxRuns : RunStep(r))

(***************************************************************************)
(* Overlapping runs: an image is uploaded while earlier runs are still in  *)
(* flight. The runs share the fields of the one CompositionCorrectorApp.   *)
(***************************************************************************)
MaxUploads == 2

UploadsNext ==
  \/ \E r \in 1..MaxUploads : RunStep(r)
  \/ CancelProcessing
  \/ ResetApp
  \/ DownloadResults

UploadsInit ==
  /\ AppInit(MaxUploads)
  /\ classify = NotStarted
  /\ layout = NotStarted

UploadsSpec == UploadsInit /\ [][UploadsNext]_vars

(***************************************************************************)
(* The classifier on its own: detectTypos applied to a normalized result.  *)
(***************************************************************************)
ClassifyInit ==
  /\ classify \in {[ocrResults |-> processOCRResults(d), typos |-> <<>>, calls |-> 0] :
                     d \in ClassifierInputs}
  /\ layout = NotStarted
  /\ AppInit(0)

DetectTypos ==
  /\ classify.calls = 0
  /\ classify' = [classify EXCEPT !.typos = detectTypos(classify.ocrResults),
                                  !.calls = 1]
  /\ UNCHANGED <<layout, appVars>>

Next == DetectTypos

Spec == ClassifyInit /\ [][Next]_vars

(***************************************************************************)
(* Properties of the classifier (specification Spec).                      *)
(***************************************************************************)
\* The keys of the English correction table.
TableKeys == {typoCorrections[i][1] : i \in 1..Len(typoCorrections)}

\* The words handed to detectTypos, and the candidates it returned for a
\* word: those with the word's text and the word's box.
ClassifiedWords == Range(classify.ocrResults.words)

EmittedFor(w) ==
  {c \in Range(classify.typos) : c.original = w.text /\ c.bbox = w.bbox}

IsAlphanumeric(c) == c \in Range(LowerLetters) \cup Range(UpperLetters) \cup Digits

\* The key of a word as the text lower-cased with the non-alphanumeric
\* characters stripped.
AlphanumericKey(text) == SelectSeq(toLowerCase(text), IsAlphanumeric)

IsLetterDigitOrUnderscore(c) == IsAlphanumeric(c) \/ c = "_"

\* The key of a word as the text lower-cased with every character other
\* than ASCII letters, digits and the underscore stripped.
WordKey(text) == SelectSeq(toLowerCase(text), IsLetterDigitOrUnderscore)

\* C1 as stated: every word whose alphanumeric key is a key of the English
\* table gets a candidate with the raw text as original, tier high and the
\* table value as correction.
C1_ExactMatchOfAlphanumericKey ==
  classify.calls > 0 =>
    \A w \in ClassifiedWords :
      AlphanumericKey(w.text) \in TableKeys =>
        \E c \in EmittedFor(w) :
          /\ c.confidence = "high"
          /\ c.correction = Lookup(typoCorrections, AlphanumericKey(w.text))

\* C1 amended: every word whose key, the text lower-cased with every
\* character other than ASCII letters, digits and the underscore stripped,
\* is a key of the English table gets a candidate with the raw text as
\* original, tier high and the table value as correction.
C1_ExactMatchHigh ==
  classify.calls > 0 =>
    \A w \in ClassifiedWords :
      WordKey(w.text) \in TableKeys =>
        \E c \in EmittedFor(w) :
          /\ c.confidence = "high"
          /\ c.correction = Lookup(typoCorrections, WordKey(w.text))

\* A word whose raw text differs from its key, a table key, was classified.
C1_Witness ==
  /\ classify.calls > 0
  /\ \E w \in ClassifiedWords :
       /\ w.text = TextTehComma
       /\ WordKey(w.text) \in TableKeys
       /\ EmittedFor(w) # {}

\* C2 as stated: a word whose alphanumeric key is shorter than 2 gets no
\* candidate, whatever its raw text contains.
C2_ShortAlphanumericKeyNeverFlagged ==
  classify.calls > 0 =>
    \A w \in ClassifiedWords :
      Len(AlphanumericKey(w.text)) < MinWordLength => EmittedFor(w) = {}

\* C2 amended: a word whose key, the text lower-cased with every character
\* other than ASCII letters, digits and the underscore stripped, is shorter
\* than 2 gets no candidate, whatever its raw text contains.
C2_ShortKeyNeverFlagged ==
  classify.calls > 0 =>
    \A w \in ClassifiedWords :
      Len(WordKey(w.text)) < MinWordLength => EmittedFor(w) = {}

\* Words of pipes only, and of one letter and a pipe, were classified
\* next to a word that was flagged.
C2_Witness ==
  /\ classify.calls > 0
  /\ \E w \in ClassifiedWords : w.text = TextPipes /\ Len(WordKey(w.text)) < MinWordLength
  /\ \E w \in ClassifiedWords : w.text = TextTeh
  /\ Len(classify.typos) = 1

Triple(c) == <<c.original, c.correction, c.confidence>>

\* C3: for the words of 'I cant beleive the sumer is over' detectTypos
\* returns exactly 'cant' -> "can't" (high) and 'sumer' -> 'summer' (high),
\* in this order.
C3_SummerSentence ==
  (/\ classify.calls > 0
   /\ [i \in 1..Len(classify.ocrResults.words) |-> classify.ocrResults.words[i].text]
        = SummerSentence)
    => [i \in 1..Len(classify.typos) |-> Triple(classify.typos[i])]
         = << <<SummerSentence[2], <<"c", "a", "n", "'", "t">>, "high">>,
              <<SummerSentence[5], <<"s", "u", "m", "m", "e", "r">>, "high">> >>

\* The sentence was classified.
C3_Witness ==
  /\ classify.calls > 0
  /\ [i \in 1..Len(classify.ocrResults.words) |-> classify.ocrResults.words[i].text]
       = SummerSentence
  /\ Len(classify.typos) = 2

\* The case of C4: no dictionary match, a key outside the allow-list and
\* longer than 4, a raw text the suspicious pattern matches and the repair
\* substitution leaves unchanged.
FlaggedButUnrepaired(w) ==
  /\ dictionaryCorrection(w.text, WordKey(w.text)) = Null
  /\ WordKey(w.text) \notin commonWords
  /\ Len(WordKey(w.text)) > MinSuspiciousLength
  /\ suspiciousPatterns(w.text)
  /\ suggestedFor(w.text) = w.text

\* C4 as stated: such a word is still emitted, at tier medium.
C4_UnrepairedStillEmitted ==
  classify.calls > 0 =>
    \A w \in ClassifiedWords :
      FlaggedButUnrepaired(w) => \E c \in EmittedFor(w) : c.confidence = "medium"

\* C4 amended: such a word yields no candidate; detectTypos pushes a
\* candidate only for a word that has a correction.
C4_UnrepairedNotEmitted ==
  classify.calls > 0 =>
    \A w \in ClassifiedWords : FlaggedButUnrepaired(w) => EmittedFor(w) = {}

\* 'balloon' was classified next to a word the heuristic repaired.
C4_Witness ==
  /\ classify.calls > 0
  /\ \E w \in ClassifiedWords : w.text = TextBalloon /\ FlaggedButUnrepaired(w)
  /\ \E c \in Range(classify.typos) : c.original = TextHe11o /\ c.confidence = "medium"

(***************************************************************************)
(* The layout on its own: drawAnnotations applied to a normalized result,  *)
(* a typo list and a canvas size.                                          *)
(***************************************************************************)
MaxTypos == 2

LayoutTexts == {TextTeh, TextBalloon}

\* Boxes at the top left, under the top right corner, and lower down.
LayoutBoxes ==
  {[x0 |-> 10, y0 |-> 10, x1 |-> 60, y1 |-> 30],
   [x0 |-> 220, y0 |-> 40, x1 |-> 280, y1 |-> 60],
   [x0 |-> 10, y0 |-> 150, x1 |-> 60, y1 |-> 170]}

LayoutWords ==
  {[text |-> t, confidence |-> 92, bbox |-> b] : t \in LayoutTexts, b \in LayoutBoxes}

LayoutInputs ==
  {[text |-> JoinTexts([i \in 1..Len(ws) |-> ws[i].text]), confidence |-> 92, words |-> ws] :
     ws \in SeqsUpTo(LayoutWords, MaxWords)}

\* A candidate of the shape detectTypos returns.
LayoutTypo(original, correction, confidence) ==
  [original |-> original, correction |-> correction, confidence |-> confidence,
   bbox |-> processWord([text |-> original, confidence |-> 92,
                         bbox |-> [x0 |-> 10, y0 |-> 10, x1 |-> 60, y1 |-> 30]]).bbox,
   position |-> [x |-> 10, y |-> 10]]

\* Candidates of every tier, and one that has no correction (null).
LayoutTypos ==
  {LayoutTypo(TextTeh, <<"t", "h", "e">>, "high"),
   LayoutTypo(TextTeh, <<"t", "h", "e">>, "medium"),
   LayoutTypo(TextBalloon, <<"t", "h", "e">>, "high"),
   LayoutTypo(TextBalloon, <<"t", "h", "e">>, "low"),
   LayoutTypo(TextBalloon, Null, "medium")}

CanvasWidths == {320, 400}

CanvasHeights == {240, 300}

LayoutInit ==
  /\ layout \in {[ocrResults |-> processOCRResults(d), typos |-> ts,
                   canvasWidth |-> w, canvasHeight |-> h,
                   instructions |-> <<>>, drawn |-> FALSE] :
                    d \in LayoutInputs, ts \in SeqsUpTo(LayoutTypos, MaxTypos),
                    w \in CanvasWidths, h \in CanvasHeights}
  /\ classify = NotStarted
  /\ AppInit(0)

DrawAnnotations ==
  /\ ~layout.drawn
  /\ layout' = [layout EXCEPT !.instructions =
                   drawAnnotations(layout.canvasWidth, layout.canvasHeight,
                                   layout.ocrResults, layout.typos),
                              !.drawn = TRUE]
  /\ UNCHANGED <<classify, appVars>>

LayoutNext == DrawAnnotations

LayoutSpec == LayoutInit /\ [][LayoutNext]_vars

(***************************************************************************)
(* Properties of the layout (specification LayoutSpec).                    *)
(***************************************************************************)
WordCount == Len(layout.ocrResults.words)

\* The rectangle strokeRect is given for a word.
BoxRect(word) ==
  [x |-> word.bbox.x0, y |-> word.bbox.y0,
   width |-> word.bbox.x1 - word.bbox.x0, height |-> word.bbox.y1 - word.bbox.y0]

\* C6: drawAnnotations produces one instruction per word, a typo highlight
\* or a plain outline of that word's box, followed by exactly one legend:
\* n + 1 instructions for n >= 0 words, the legend last.
C6_OneInstructionPerWordPlusLegend ==
  layout.drawn =>
    /\ Len(layout.instructions) = WordCount + 1
    /\ layout.instructions[WordCount + 1].kind = "legend"
    /\ \A i \in 1..WordCount :
         /\ layout.instructions[i].kind \in {"typoHighlight", "plainOutline"}
         /\ layout.instructions[i].rect = BoxRect(layout.ocrResults.words[i])

\* A result without words was drawn, with typos in the list.
C6_Witness ==
  /\ layout.drawn
  /\ WordCount = 0
  /\ layout.typos # <<>>

LegendInstructions ==
  {i \in 1..Len(layout.instructions) : layout.instructions[i].kind = "legend"}

\* C7: the legend rectangle is the 180x80 panel at x = canvasWidth - 200,
\* y = 20, whatever the words, the typos and the canvas height are.
C7_LegendDependsOnCanvasWidthOnly ==
  layout.drawn =>
    /\ LegendInstructions # {}
    /\ \A i \in LegendInstructions :
         layout.instructions[i].rect =
           [x |-> layout.canvasWidth - 200, y |-> 20, width |-> 180, height |-> 80]

\* Words, among them one under the top right corner, and typos were drawn
\* on the taller canvas.
C7_Witness ==
  /\ layout.drawn
  /\ WordCount = 2
  /\ layout.typos # <<>>
  /\ layout.canvasHeight = 300
  /\ \E i \in 1..WordCount : layout.ocrResults.words[i].bbox.x0 = 220

\* Two rectangles share some area.
Intersects(a, b) ==
  /\ a.x < b.x + b.width
  /\ b.x < a.x + a.width
  /\ a.y < b.y + b.height
  /\ b.y < a.y + a.height

WordInstructions ==
  {i \in 1..Len(layout.instructions) : layout.instructions[i].kind # "legend"}

\* C8 as stated: the legend rectangle intersects the rectangle of no word
\* instruction.
C8_LegendNeverOverlapsWords ==
  layout.drawn =>
    \A l \in LegendInstructions, i \in WordInstructions :
      ~Intersects(layout.instructions[l].rect, layout.instructions[i].rect)

\* The box of a word reaches into the area of the legend panel, from
\* canvasWidth - 200 to canvasWidth - 20 across and from 20 to 100 down.
InPanelArea(word) ==
  /\ word.bbox.x1 > layout.canvasWidth - 200
  /\ word.bbox.x0 < layout.canvasWidth - 20
  /\ word.bbox.y1 > 20
  /\ word.bbox.y0 < 100

\* C8 amended: the legend rectangle intersects the rectangle of a word
\* instruction exactly when the word's box reaches into the panel area;
\* the legend is not moved away from such a word.
C8_LegendOverlapsOnlyPanelArea ==
  layout.drawn =>
    \A l \in LegendInstructions, i \in 1..WordCount :
      Intersects(layout.instructions[l].rect, layout.instructions[i].rect)
        <=> InPanelArea(layout.ocrResults.words[i])

\* A word under the top right corner and a word away from it were drawn.
C8_Witness ==
  /\ layout.drawn
  /\ \E i \in 1..WordCount : InPanelArea(layout.ocrResults.words[i])
  /\ \E i \in 1..WordCount : ~InPanelArea(layout.ocrResults.words[i])

(***************************************************************************)
(* Properties of the application (specification RunSpec).                  *)
(***************************************************************************)
\* The engine answered run r's first recognize call with the given
\* confidence, and its retry call likewise.
FirstPassConfidence(r, c) ==
  /\ Len(runs[r].answers) >= 1
  /\ hasWords(runs[r].answers[1])
  /\ runs[r].answers[1].confidence = c

RetryPassConfidence(r, c) ==
  /\ Len(runs[r].answers) >= 2
  /\ hasWords(runs[r].answers[2])
  /\ runs[r].answers[2].confidence = c

\* C5: the retry result replaces the first-pass result only if its
\* confidence is more than 10 percentage points higher: a first pass at 15%
\* is kept against a retry at 23% and replaced by a retry at 30%.
C5_RetryMargin ==
  \A r \in DOMAIN runs :
    (runs[r].outcome = "retryReturned" /\ FirstPassConfidence(r, 15)) =>
      /\ RetryPassConfidence(r, 23) =>
           runs[r].returned = processOCRResults(runs[r].answers[1])
      /\ RetryPassConfidence(r, 30) =>
           runs[r].returned = processOCRResults(runs[r].answers[2])

\* An answer that is no usable result: the engine threw, or its output has
\* no word list.
IsFailure(answer) == answer = Threw \/ ~hasWords(answer)

FirstPassFailed(run) == Len(run.answers) >= 1 /\ IsFailure(run.answers[1])

RetryPassFailed(run) == Len(run.answers) >= 2 /\ IsFailure(run.answers[2])

\* The results section shows the results of run r.
Shows(r) == app.shown # NullObject /\ app.shown.run = r

FailedRunShowsNothing ==
  \A r \in DOMAIN runs :
    /\ FirstPassFailed(runs[r]) =>
         /\ runs[r].typos = <<>>
         /\ ~Shows(r)
         /\ runs[r].pc \in {"recognize", "catchTerminate", "done"}
         /\ runs[r].pc = "done" => runs[r].outcome \in {"error", "cancelled"}
    /\ RetryPassFailed(runs[r]) =>
         /\ runs[r].typos = <<>>
         /\ ~Shows(r)
         /\ runs[r].pc = "done"
         /\ runs[r].outcome = "retryFailed"

\* A step that ends a run in the error handler leaves the app reset.
ErrorEndResetsApp ==
  \A r \in DOMAIN runs :
    (runs[r].pc # "done" /\ runs'[r].pc = "done" /\ runs'[r].outcome = "error") =>
      /\ app'.alert = "error"
      /\ app'.ocrResults = NullObject
      /\ app'.currentImage = NoImage
      /\ ~app'.resultsSection
      /\ ~app'.processingSection

C10_EveryRecognizeBoundedByTimeout ==
  \A r \in DOMAIN runs :
    /\ runs[r].pc \in {"recognize", "retryRecognize"} => racesTimeout(runs[r])
    /\ runs[r].outcome = "timeout" => ~Shows(r)

(***************************************************************************)
(* Properties of overlapping runs (specification UploadsSpec).             *)
(***************************************************************************)
\* The step in which run r assigns this.ocrResults: after its first
\* recognize, or when the retry result replaces the first-pass result.
StoresResult(r) ==
  \/ /\ runs[r].pc = "recognize"
     /\ runs'[r].pc \in {"terminate", "showTimer", "retryTerminate", "retryCreateWorker"}
  \/ /\ runs[r].pc = "retryRecognize"
     /\ runs'[r].outcome = "retryReturned"
     /\ app'.ocrResults # app.ocrResults

\* C11: once cancelProcessing was called while a run was in flight, that
\* run never stores an OCR result and its results are never shown (a report
\* is downloaded from shown results only), also when a later upload resets
\* the cancellation flag.
C11_CancelledRunStoresAndShowsNothing ==
  /\ [](\A r \in DOMAIN runs : runs[r].cancelled => ~Shows(r))
  /\ [][\A r \in DOMAIN runs : runs[r].cancelled => ~StoresResult(r)]_vars

\* The result of run r's own image: what the engine answered to the first
\* recognize call of the run, normalized.
OwnResult(r) == processOCRResults(runs[r].answers[1])

\* C12: overlapping runs are isolated. What a run shows, the OCR result,
\* the typo list and the processing time, comes from its own image and its
\* own upload, not from fields another run wrote.
C12_RunsIsolated ==
  \A r \in DOMAIN runs :
    Shows(r) =>
      /\ app.shown.ocrResults = OwnResult(r)
      /\ app.shown.typos = detectTypos(OwnResult(r))
      /\ app.shown.processingTime = app.shown.at - runs[r].startedAt

(***************************************************************************)
(* Progress of a run (specification RunLiveSpec).                          *)
(***************************************************************************)
\* The engine answered the first recognize call of the run with a result.
FirstPassReturned(run) == Len(run.answers) >= 1 /\ ~IsFailure(run.answers[1])

\* An engine call of the run threw or never answered.
EngineFailed(run) == run.outcome \in {"error", "timeout", "retryFailed"}

\* The results section shows run r's result with the typos detected in it.
ShowsClassified(r) ==
  /\ Shows(r)
  /\ app.shown.typos = detectTypos(app.shown.ocrResults)

\* C13: a low-confidence result never blocks completion. Every run whose
\* engine calls return and that is not cancelled, a chi_sim run that takes
\* the chi_tra retry included, eventually detects typos in the chosen result
\* and shows results.
C13_LowConfidenceNeverBlocks ==
  \A r \in 1..MaxRuns :
    [](FirstPassReturned(runs[r]) =>
         <>(ShowsClassified(r) \/ runs[r].cancelled \/ EngineFailed(runs[r])))

(***************************************************************************)
(* The downloaded report (specification RunSpec).                          *)
(***************************************************************************)
\* The report that was downloaded, parsed back.
ParsedReport == JSONparse(app.report.text)

\* C14: the report round-trips. Parsed back from its JSON text it has a
\* typos array as long as the typo list that downloadResults computed, which
\* is as long as the list of the run whose OCR result is in the report, and
\* ocr_results.word_count is the number of elements of ocr_results.words.
C14_ReportRoundTrip ==
  app.report # NullObject =>
    /\ JsonGet(ParsedReport, "typos").type = "array"
    /\ Len(JsonGet(ParsedReport, "typos").elements) = Len(app.report.results.typos)
    /\ \A r \in DOMAIN runs :
         (runs[r].outcome = "shown" /\ app.report.results.ocr_results = OwnResult(r)) =>
           Len(JsonGet(ParsedReport, "typos").elements) = Len(runs[r].typos)
    /\ JsonGet(JsonGet(ParsedReport, "ocr_results"), "word_count").v
         = Len(JsonGet(JsonGet(ParsedReport, "ocr_results"), "words").elements)
    /\ JsonGet(JsonGet(ParsedReport, "ocr_results"), "word_count").v
         = app.report.results.ocr_results.word_count

\* A report was downloaded whose typo list has a candidate with a
\* correction that JSON cannot express.
C14_Witness ==
  /\ app.report # NullObject
  /\ \E r \in DOMAIN runs :
       /\ Shows(r)
       /\ Len(runs[r].typos) = 2
       /\ runs[r].typos[2].correction = ObjectFunction
  /\ Len(JsonGet(ParsedReport, "typos").elements) = 2
  /\ JsonGet(JsonGet(ParsedReport, "ocr_results"), "word_count").v = 2

(***************************************************************************)
(* One detector instance called again and again: detectTypos on the same   *)
(* result, with calls on other results in between.                         *)
(***************************************************************************)
MaxCalls == 3

\* The fields that the constructor of TypoDetector sets and detectTypos
\* reads.
TypoDetector == [typoCorrections |-> typoCorrections, commonWords |-> commonWords]

\* The results of the calls in between.
OtherInputs == {EngineLine(<<TextHe11o>>, 92), EngineLine(<<TextTeh, TextBalloon>>, 92)}

\* The results that are classified repeatedly: each word alone, and the
\* sentence.
DetectorInputs ==
  {EngineLine(<<t>>, 92) : t \in WordTexts} \cup {EngineLine(SummerSentence, 92)}

DetectorInit ==
  /\ classify \in {[detector |-> TypoDetector,
                    ocrResults |-> processOCRResults(d),
                    results |-> <<>>, other |-> <<>>, log |-> <<>>] :
                     d \in DetectorInputs}
  /\ layout = NotStarted
  /\ AppInit(0)

\* detectTypos(ocrResults) once more on the same result. The method assigns
\* no field of the detector and none of its argument.
DetectAgain ==
  /\ Len(classify.log) < MaxCalls
  /\ classify' = [classify EXCEPT
                    !.results = Append(@, detectTypos(classify.ocrResults)),
                    !.log = Append(@, "same")]
  /\ UNCHANGED <<layout, appVars>>

\* detectTypos on another result.
DetectOther ==
  /\ Len(classify.log) < MaxCalls
  /\ \E d \in OtherInputs :
       classify' = [classify EXCEPT
                      !.other = detectTypos(processOCRResults(d)),
                      !.log = Append(@, "other")]
  /\ UNCHANGED <<layout, appVars>>

DetectorNext == DetectAgain \/ DetectOther

DetectorSpec == DetectorInit /\ [][DetectorNext]_vars

EngineBoxes ==
  {[x0 |-> 10, y0 |-> 10, x1 |-> 60, y1 |-> 30],
   [x0 |-> 0, y0 |-> 25, x1 |-> 7, y1 |-> 25],
   [x0 |-> 90, y0 |-> 40, x1 |-> 80, y1 |-> 35]}

EngineWords ==
  {[text |-> t, confidence |-> c, bbox |-> b] :
     t \in {TextTeh, TextDe}, c \in {0, 37, 100}, b \in EngineBoxes}

NormalizerInputs ==
  {[text |-> JoinTexts([i \in 1..Len(ws) |-> ws[i].text]),
    confidence |-> c,
    words |-> ws] : ws \in SeqsUpTo(EngineWords, MaxWords), c \in {0, 64}}

NormalizerInit ==
  /\ classify \in {[tesseractData |-> d, ocrResults |-> NullObject] :
                     d \in NormalizerInputs}
  /\ layout = NotStarted
  /\ AppInit(0)

\* this.ocrResults = this.processOCRResults(data)
ProcessOCRResults ==
  /\ classify.ocrResults = NullObject
  /\ classify' = [classify EXCEPT !.ocrResults = processOCRResults(classify.tesseractData)]
  /\ UNCHANGED <<layout, appVars>>

NormalizerNext == ProcessOCRResults

NormalizerSpec == NormalizerInit /\ [][NormalizerNext]_vars

\* The fraction is the hundredth part of the engine's number.
IsHundredthOf(fraction, number) == fraction.num * 100 = number * fraction.den

\* C16: processOCRResults keeps the words in order with their text, divides
\* each confidence and the aggregate confidence by 100, copies the corners
\* of each box and adds width = x1 - x0 and height = y1 - y0, and sets
\* word_count to the number of words.
C16_ProcessOCRResults ==
  classify.ocrResults # NullObject =>
    LET data == classify.tesseractData
        result == classify.ocrResults
    IN /\ Len(result.words) = Len(data.words)
       /\ \A i \in 1..Len(data.words) :
            /\ result.words[i].text = data.words[i].text
            /\ IsHundredthOf(result.words[i].confidence, data.words[i].confidence)
            /\ result.words[i].bbox.x0 = data.words[i].bbox.x0
            /\ result.words[i].bbox.y0 = data.words[i].bbox.y0
            /\ result.words[i].bbox.x1 = data.words[i].bbox.x1
            /\ result.words[i].bbox.y1 = data.words[i].bbox.y1
            /\ result.words[i].bbox.width = data.words[i].bbox.x1 - data.words[i].bbox.x0
            /\ result.words[i].bbox.height = data.words[i].bbox.y1 - data.words[i].bbox.y0
       /\ result.text = data.text
       /\ IsHundredthOf(result.confidence, data.confidence)
       /\ result.word_count = Len(result.words)

\* Two different words with different confidences and boxes were
\* normalized.
C16_Witness ==
  /\ classify.ocrResults # NullObject
  /\ classify.ocrResults.word_count = 2
  /\ classify.tesseractData.confidence = 64
  /\ classify.tesseractData.words[1].text # classify.tesseractData.words[2].text
  /\ classify.tesseractData.words[1].confidence = 37
  /\ classify.tesseractData.words[2].confidence = 100
  /\ classify.ocrResults.words[1].bbox.width = 50
  /\ classify.ocrResults.words[2].bbox.width = -10

(***************************************************************************)
(* The instruction of each word (specification LayoutSpec).                *)
(***************************************************************************)
\* The candidates of the list whose original is the text, by index.
TyposOf(text) == {j \in 1..Len(layout.typos) : layout.typos[j].original = text}

\* The candidate the text-keyed lookup yields: the last one set for it.
LookedUp(text) ==
  layout.typos[CHOOSE j \in TyposOf(text) : \A k \in TyposOf(text) : k <= j]

\* The outline of the i-th word is that of a typo: 3 wide, red for the
\* tier high and amber for any other.
IsTypoOutline(i) ==
  LET word == layout.ocrResults.words[i]
      instruction == layout.instructions[i]
  IN /\ instruction.kind = "typoHighlight"
     /\ instruction.rect = BoxRect(word)
     /\ instruction.lineWidth = 3
     /\ instruction.color = IF LookedUp(word.text).confidence = "high"
                              THEN "#dc3545" ELSE "#ffc107"

\* The i-th word has the thin green outline at opacity 0.3 and no label.
IsPlainOutline(i) ==
  LET word == layout.ocrResults.words[i]
      instruction == layout.instructions[i]
  IN /\ instruction.kind = "plainOutline"
     /\ instruction.rect = BoxRect(word)
     /\ instruction.lineWidth = 1
     /\ instruction.color = "#28a745"
     /\ instruction.alpha.num * 10 = 3 * instruction.alpha.den
     /\ "label" \notin DOMAIN instruction

\* The label of the i-th word has the given text and lies 5 above the
\* top left corner of the box.
HasLabel(i, text) ==
  LET word == layout.ocrResults.words[i]
      instruction == layout.instructions[i]
  IN /\ "label" \in DOMAIN instruction
     /\ instruction.label.text = text
     /\ instruction.label.x = word.bbox.x0
     /\ instruction.label.y = word.bbox.y0 - 5

StatsInit ==
  /\ classify \in
       {[typos |-> detectTypos(processOCRResults(d)), detected |-> TRUE,
         stats |-> NullObject] : d \in ClassifierInputs}
       \cup {[typos |-> ts, detected |-> FALSE, stats |-> NullObject] :
               ts \in SeqsUpTo(LayoutTypos, MaxTypos)}
  /\ layout = NotStarted
  /\ AppInit(0)

\* const typoStats = this.typoDetector.getTypoStats(typos)
GetTypoStats ==
  /\ classify.stats = NullObject
  /\ classify' = [classify EXCEPT !.stats = getTypoStats(classify.typos)]
  /\ UNCHANGED <<layout, appVars>>

StatsNext == GetTypoStats

StatsSpec == StatsInit /\ [][StatsNext]_vars

\* The number of candidates of the list that have the given tier.
Tally(tier) ==
  Cardinality({i \in 1..Len(classify.typos) : classify.typos[i].confidence = tier})

\* C18: getTypoStats returns the number of candidates as total and the
\* numbers of candidates of tier high, medium and low; for a list that
\* detectTypos produced the three add up to the total.
C18_TypoStats ==
  classify.stats # NullObject =>
    /\ classify.stats.total = Len(classify.typos)
    /\ classify.stats.high_confidence = Tally("high")
    /\ classify.stats.medium_confidence = Tally("medium")
    /\ classify.stats.low_confidence = Tally("low")
    /\ classify.detected =>
         classify.stats.high_confidence + classify.stats.medium_confidence
           + classify.stats.low_confidence = classify.stats.total

\* Statistics were taken of a list from detectTypos with a high and a
\* medium candidate.
C18_Witness ==
  /\ classify.stats # NullObject
  /\ classify.detected
  /\ classify.stats.total = 2
  /\ classify.stats.high_confidence = 1
  /\ classify.stats.medium_confidence = 1

(***************************************************************************)
(* One canvas drawn on again and again: drawAnnotations for the same       *)
(* result, typos and size, with other drawings in between. The canvas and  *)
(* its context are those of the app, this.annotatedCanvas, in every call.  *)
(***************************************************************************)
\* What is drawn repeatedly: a typo and a word that is none, or one word.
RedrawInputs ==
  {[text |-> JoinTexts([i \in 1..Len(ws) |-> ws[i].text]), confidence |-> 92, words |-> ws] :
     ws \in {<<>>,
             <<[text |-> TextTeh, confidence |-> 92, bbox |-> LineBox(1)]>>,
             <<[text |-> TextBalloon, confidence |-> 92, bbox |-> LineBox(1)]>>,
             <<[text |-> TextTeh, confidence |-> 92, bbox |-> LineBox(1)],
               [text |-> TextBalloon, confidence |-> 92, bbox |-> LineBox(2)]>>}}

\* The drawings in between.
OtherDrawings ==
  {[ocrResults |-> processOCRResults(EngineLine(<<TextWhether>>, 92)), typos |-> <<>>],
   [ocrResults |-> processOCRResults(EngineLine(<<TextTeh>>, 92)),
    typos |-> <<LayoutTypo(TextTeh, <<"t", "h", "e">>, "high")>>]}

\* Some instruction of the sequence is a plain outline.
hasPlainOutline(instructions) ==
  \E i \in 1..Len(instructions) : instructions[i].kind = "plainOutline"

RedrawInit ==
  /\ layout \in {[ocrResults |-> processOCRResults(d), typos |-> ts,
                   canvasWidth |-> w, canvasHeight |-> 300,
                   results |-> <<>>, log |-> <<>>, painted |-> FALSE] :
                    d \in RedrawInputs, ts \in SeqsUpTo(LayoutTypos, 1),
                    w \in CanvasWidths}
  /\ classify = NotStarted
  /\ AppInit(0)

\* drawAnnotations once more with the same arguments.
DrawAgain ==
  /\ Len(layout.log) < MaxCalls
  /\ LET instructions == drawAnnotations(layout.canvasWidth, layout.canvasHeight,
                                         layout.ocrResults, layout.typos)
     IN layout' = [layout EXCEPT !.results = Append(@, instructions),
                                 !.log = Append(@, "same"),
                                 !.painted = @ \/ hasPlainOutline(instructions)]
  /\ UNCHANGED <<classify, appVars>>

\* drawAnnotations with other arguments.
DrawOther ==
  /\ Len(layout.log) < MaxCalls
  /\ \E d \in OtherDrawings :
       LET instructions == drawAnnotations(layout.canvasWidth, layout.canvasHeight,
                                           d.ocrResults, d.typos)
       IN layout' = [layout EXCEPT !.log = Append(@, "other"),
                                   !.painted = @ \/ hasPlainOutline(instructions)]
  /\ UNCHANGED <<classify, appVars>>

RedrawNext == DrawAgain \/ DrawOther

RedrawSpec == RedrawInit /\ [][RedrawNext]_vars

RetryStarted(run) ==
  \/ run.pc \in {"retryTerminate", "retryCreateWorker", "retrySetParameters",
                 "retryPreprocess", "retryRecognize"}
  \/ run.outcome \in {"retryReturned", "retryFailed"}

\* C20: the retry with chi_tra is started only for the language chi_sim
\* and a first pass whose aggregate confidence is below 20 percent, that
\* is below 20 on the engine's scale of 0 to 100.
C20_RetryOnlyBelowTwentyPercent ==
  \A r \in DOMAIN runs :
    RetryStarted(runs[r]) =>
      /\ runs[r].lang = "chi_sim"
      /\ runs[r].answers[1].confidence < 20

(***************************************************************************)
(* The order of the rules (specification Spec).                            *)
(***************************************************************************)
\* The entries of the English table whose key is a substring of the key of
\* the word or of its lower-cased raw text, by position in the table.
KeysWithin(text) ==
  {i \in 1..Len(typoCorrections) :
     \/ includes(WordKey(text), typoCorrections[i][1])
     \/ includes(toLowerCase(text), typoCorrections[i][1])}

\* The word matches a dictionary rule: the exact one or the substring one.
MatchesDictionary(text) == WordKey(text) \in TableKeys \/ KeysWithin(text) # {}

\* The correction of the first dictionary rule that matches.
FirstDictionaryCorrection(text) ==
  IF WordKey(text) \in TableKeys
    THEN Lookup(typoCorrections, WordKey(text))
    ELSE typoCorrections[CHOOSE i \in KeysWithin(text) :
                           \A j \in KeysWithin(text) : i <= j][2]

\* The candidates of the list that are for the word, by position.
CandidatesOf(w) ==
  {i \in 1..Len(classify.typos) :
     classify.typos[i].original = w.text /\ classify.typos[i].bbox = w.bbox}

\* The heuristic would flag the word if no dictionary rule had matched.
HeuristicApplies(text) ==
  /\ WordKey(text) \notin commonWords
  /\ Len(WordKey(text)) > MinSuspiciousLength
  /\ suspiciousPatterns(text)

\* C21: detectTypos emits at most one candidate per word, and the first
\* rule that matches, in the order exact lookup, substring lookup,
\* heuristic, fixes tier and correction: a word that matches a dictionary
\* rule is reported at tier high with the dictionary's correction, never at
\* tier medium.
C21_FirstRuleWins ==
  classify.calls > 0 =>
    /\ Len(classify.typos) <= Len(classify.ocrResults.words)
    /\ \A w \in ClassifiedWords :
         /\ Cardinality(CandidatesOf(w)) <= 1
         /\ MatchesDictionary(w.text) =>
              \A i \in CandidatesOf(w) :
                /\ classify.typos[i].confidence = "high"
                /\ classify.typos[i].correction = FirstDictionaryCorrection(w.text)

\* A word that matches the exact rule and that the heuristic would flag
\* was classified next to one that only the heuristic flags.
C21_Witness ==
  /\ classify.calls > 0
  /\ \E w \in ClassifiedWords :
       /\ w.text = TextSumerPipe
       /\ MatchesDictionary(w.text)
       /\ HeuristicApplies(w.text)
       /\ Cardinality(CandidatesOf(w)) = 1
  /\ \E c \in Range(classify.typos) : c.original = TextHe11o /\ c.confidence = "medium"

\* The word matches the substring rule only: its key is no table key, but
\* its key or its lower-cased raw text contains one.
SubstringOnly(text) == WordKey(text) \notin TableKeys /\ KeysWithin(text) # {}

\* C22: a word whose key is not a table key, but whose key or lower-cased
\* raw text contains table keys, is emitted at tier high with the
\* correction of the first such entry in the insertion order of the table,
\* wherever the keys stand in the word.
C22_SubstringMatchFirstEntry ==
  classify.calls > 0 =>
    \A w \in ClassifiedWords :
      SubstringOnly(w.text) =>
        \E c \in EmittedFor(w) :
          /\ c.confidence = "high"
          /\ \E i \in KeysWithin(w.text) :
               /\ c.correction = typoCorrections[i][2]
               /\ \A j \in KeysWithin(w.text) : i <= j

\* Two words that contain 'cant' and 'wont' in either order were both
\* emitted with the correction of 'cant'.
C22_Witness ==
  /\ classify.calls > 0
  /\ \E v, w \in ClassifiedWords :
       /\ v.text = TextCantwont /\ w.text = TextWontcant
       /\ SubstringOnly(v.text) /\ Cardinality(KeysWithin(v.text)) = 2
       /\ SubstringOnly(w.text) /\ Cardinality(KeysWithin(w.text)) = 2
       /\ \E c \in EmittedFor(v) : c.correction = <<"c", "a", "n", "'", "t">>
       /\ \E c \in EmittedFor(w) : c.correction = <<"c", "a", "n", "'", "t">>

\* The keys of the CJK table.
ChineseTableKeys ==
  {chineseTypoCorrections[i][1] : i \in 1..Len(chineseTypoCorrections)}

\* C23: the exact lookup covers the CJK confusable-pair table: a word whose
\* text is a key of that table is emitted at tier high with the paired
\* character as its correction.
C23_ChineseTableCovered ==
  classify.calls > 0 =>
    \A w \in ClassifiedWords :
      w.text \in ChineseTableKeys =>
        \E c \in EmittedFor(w) :
          /\ c.confidence = "high"
          /\ c.correction = Lookup(chineseTypoCorrections, w.text)

(***************************************************************************)
(* Word records that lack a property: detectTypos and drawAnnotations      *)
(* applied to a result in which some words have no text or no box          *)
(* (specification MalformedSpec).                                          *)
(***************************************************************************)
WellFormedWords ==
  {processWord([text |-> t, confidence |-> 92, bbox |-> b]) :
     t \in {TextTeh, TextBalloon, TextHe11o}, b \in {LineBox(1), LineBox(2)}}

WithoutText(word) == [f \in DOMAIN word \ {"text"} |-> word[f]]

WithoutBbox(word) == [f \in DOMAIN word \ {"bbox"} |-> word[f]]

MalformedWords ==
  {WithoutText(w) : w \in WellFormedWords} \cup {WithoutBbox(w) : w \in WellFormedWords}

MalformedInputs ==
  {[text |-> <<>>, confidence |-> Frac(92, PercentScale), words |-> ws,
    word_count |-> Len(ws)] :
     ws \in SeqsUpTo(WellFormedWords \cup MalformedWords, MaxWords)}

IsWellFormed(word) == hasText(word) /\ hasBbox(word)

\* The result without its malformed words.
WellFormedPart(ocrResults) ==
  [ocrResults EXCEPT !.words = SelectSeq(ocrResults.words, IsWellFormed)]

MalformedInit ==
  /\ \E d \in MalformedInputs :
       /\ classify = [ocrResults |-> d, typos |-> <<>>, calls |-> 0, raised |-> "none"]
       /\ layout = [ocrResults |-> d, typos |-> detectTypos(WellFormedPart(d)),
                    canvasWidth |-> 300, canvasHeight |-> 240,
                    instructions |-> <<>>, drawn |-> FALSE, raised |-> "none"]
  /\ AppInit(0)

\* typoDetector.detectTypos(ocrResults): the list, or the error it raises.
DetectMalformed ==
  /\ classify.calls = 0
  /\ classify' =
       IF detectTyposThrows(classify.ocrResults)
         THEN [classify EXCEPT !.raised = "TypeError", !.calls = 1]
         ELSE [classify EXCEPT !.typos = detectTypos(classify.ocrResults),
                               !.calls = 1]
  /\ UNCHANGED <<layout, appVars>>

\* drawAnnotations(canvas, ctx, img, ocrResults, typos): the canvas when it
\* ends, and the error it raises.
DrawMalformed ==
  /\ ~layout.drawn
  /\ layout' = [layout EXCEPT
                  !.instructions =
                     drawAnnotationsPainted(layout.canvasWidth, layout.canvasHeight,
                                            layout.ocrResults, layout.typos),
                  !.raised = IF drawAnnotationsThrows(layout.ocrResults)
                               THEN "TypeError" ELSE "none",
                  !.drawn = TRUE]
  /\ UNCHANGED <<classify, appVars>>

MalformedNext == DetectMalformed \/ DrawMalformed

MalformedSpec == MalformedInit /\ [][MalformedNext]_vars

\* The result has exactly one malformed word.
OneMalformed(ocrResults) ==
  Cardinality({i \in 1..Len(ocrResults.words) : ~IsWellFormed(ocrResults.words[i])}) = 1

\* C24: one malformed word record (no text, or no box) is skipped by
\* classification and by layout without raising: the other words are still
\* classified and drawn, and the legend is drawn.
C24_MalformedWordSkipped ==
  /\ (classify.calls > 0 /\ OneMalformed(classify.ocrResults)) =>
       /\ classify.raised = "none"
       /\ Range(detectTypos(WellFormedPart(classify.ocrResults)))
            \subseteq Range(classify.typos)
  /\ (layout.drawn /\ OneMalformed(layout.ocrResults)) =>
       /\ layout.raised = "none"
       /\ Range(drawAnnotations(layout.canvasWidth, layout.canvasHeight,
                                WellFormedPart(layout.ocrResults), layout.typos))
            \subseteq Range(layout.instructions)

(***************************************************************************)
(* The selection at the end of retryWithTraditionalChinese, applied more   *)
(* than once to the same retry answer (specification SelectionSpec).       *)
(***************************************************************************)
MaxSelections == 2

\* Confidences the engine reports, on its scale of 0 to 100.
SelectionConfidences == {0, 15, 23, 30, 92, 100}

SelectionOutputs ==
  {EngineLine(<<t>>, c) : t \in {TextDe, TextTeh}, c \in SelectionConfidences}

SelectionInit ==
  /\ classify = NotStarted
  /\ layout = NotStarted
  /\ \E first \in SelectionOutputs :
       app = [currentImage |-> 1, ocrResults |-> processOCRResults(first),
              startTime |-> 0, currentWorker |-> NoWorker,
              processingCancelled |-> FALSE,
              processingSection |-> TRUE, resultsSection |-> FALSE,
              now |-> 0, alert |-> "none", shown |-> NullObject,
              report |-> NullObject]
  /\ runs = <<[IdleRun EXCEPT !.pc = "retryRecognize", !.lang = "chi_sim"]>>
  /\ workers = <<>>

\* The first application takes any answer of the engine; the later ones
\* take the same answer again.
SelectAgain ==
  /\ Len(runs[1].answers) < MaxSelections
  /\ \E data \in SelectionOutputs \cup {[text |-> <<>>, confidence |-> 0]} :
       /\ runs[1].answers # <<>> => data = runs[1].answers[1]
       /\ LET result == afterRetry(app, [runs[1] EXCEPT !.answers = Append(@, data)],
                                   data)
          IN Step(1, [app |-> result.app, run |-> result.run, workers |-> workers])

SelectionNext == SelectAgain

SelectionSpec == SelectionInit /\ [][SelectionNext]_vars

\* C25: the selection step is idempotent: applied again with the same
\* retry answer, it leaves ocrResults, and what it returns, at the choice
\* of the first application.
C25_SelectionIdempotent ==
  [][(runs[1].answers # <<>> /\ Len(runs'[1].answers) = Len(runs[1].answers) + 1)
       => /\ app'.ocrResults = app.ocrResults
          /\ runs'[1].returned = runs[1].returned]_vars

\* The step was applied twice to a retry answer of higher confidence than
\* the first pass by more than the margin in percent, and the first result
\* is still the choice.
C25_Witness ==
  /\ Len(runs[1].answers) = 2
  /\ runs[1].answers[1] = runs[1].answers[2]
  /\ runs[1].answers[1] = EngineLine(<<TextDe>>, 100)
  /\ runs[1].outcome = "retryReturned"
  /\ app.ocrResults = processOCRResults(EngineLine(<<TextTeh>>, 15))
  /\ runs[1].returned = app.ocrResults

(***************************************************************************)
(* What the four read-only operations leave of their arguments             *)
(* (specification FrameSpec). An argument is an object the caller keeps,   *)
(* so an assignment inside the operation would show in the caller's value. *)
(***************************************************************************)
\* detectTypos writing the cleaned text back into each word.
detectTyposArgument_cleansInPlace(ocrResults) ==
  [ocrResults EXCEPT
     !.words = [i \in 1..Len(ocrResults.words) |->
                  [ocrResults.words[i] EXCEPT !.text = cleanWord(@)]]]

\* ocrResults after detectTypos(ocrResults): the method reads words, text
\* and bbox, and pushes to a list of its own; it assigns no property of
\* the result or of a word.
detectTyposArgument(ocrResults) == ocrResults

\* typos after getTypoStats(typos): length and filter read the list.
getTypoStatsArgument(typos) == typos

\* ocrResults and typos after drawAnnotations: the assignments are to the
\* canvas, the context and a Map of its own.
drawAnnotationsArguments(ocrResults, typos) ==
  [ocrResults |-> ocrResults, typos |-> typos]

\* this.ocrResults after downloadResults(): the results object refers to
\* it, and JSON.stringify reads it.
downloadResultsArgument(ocrResults) == ocrResults

FrameInit ==
  /\ classify \in {[ocrResults |-> processOCRResults(d),
                    typos |-> detectTypos(processOCRResults(d)),
                    log |-> <<>>, out |-> NullObject] : d \in DetectorInputs}
  /\ layout = NotStarted
  /\ AppInit(0)

\* this.typoDetector.detectTypos(ocrResults)
CallDetectTypos ==
  /\ Len(classify.log) < MaxCalls
  /\ classify' = [classify EXCEPT
                    !.ocrResults = detectTyposArgument(@),
                    !.out = [typos |-> detectTypos(classify.ocrResults)],
                    !.log = Append(@, "detectTypos")]
  /\ UNCHANGED <<layout, appVars>>

\* this.typoDetector.getTypoStats(typos)
CallGetTypoStats ==
  /\ Len(classify.log) < MaxCalls
  /\ classify' = [classify EXCEPT
                    !.typos = getTypoStatsArgument(@),
                    !.out = [stats |-> getTypoStats(classify.typos)],
                    !.log = Append(@, "getTypoStats")]
  /\ UNCHANGED <<layout, appVars>>

\* this.drawAnnotations(canvas, ctx, img, ocrResults, typos)
CallDrawAnnotations ==
  /\ Len(classify.log) < MaxCalls
  /\ LET after == drawAnnotationsArguments(classify.ocrResults, classify.typos)
     IN classify' = [classify EXCEPT
                       !.ocrResults = after.ocrResults,
                       !.typos = after.typos,
                       !.out = [instructions |->
                                  drawAnnotations(300, 240, classify.ocrResults,
                                                  classify.typos)],
                       !.log = Append(@, "drawAnnotations")]
  /\ UNCHANGED <<layout, appVars>>

\* this.downloadResults()
CallDownloadResults ==
  /\ Len(classify.log) < MaxCalls
  /\ classify' = [classify EXCEPT
                    !.ocrResults = downloadResultsArgument(@),
                    !.out = [text |-> stringifyResults(downloadResults(
                               [now |-> 1, startTime |-> 0, currentImage |-> 1,
                                ocrResults |-> classify.ocrResults]))],
                    !.log = Append(@, "downloadResults")]
  /\ UNCHANGED <<layout, appVars>>

FrameNext ==
  \/ CallDetectTypos
  \/ CallGetTypoStats
  \/ CallDrawAnnotations
  \/ CallDownloadResults

FrameSpec == FrameInit /\ [][FrameNext]_vars

IsEmptyCorrection(correction) == correction \in {<<>>, Null, Undefined}

\* C27: every candidate detectTypos returns has a non-empty correction and
\* tier high or medium; tier low is never emitted, so getTypoStats reports
\* low_confidence = 0 for a list of the classifier.
C27_NoLowTier ==
  classify.detected =>
    /\ \A c \in Range(classify.typos) :
         /\ ~IsEmptyCorrection(c.correction)
         /\ c.confidence \in {"high", "medium"}
    /\ classify.stats # NullObject => classify.stats.low_confidence = 0

\* Statistics were taken of a classifier list that holds a candidate of
\* the heuristic and one whose correction is no string.
C27_Witness ==
  /\ classify.detected
  /\ classify.stats # NullObject
  /\ classify.stats.low_confidence = 0
  /\ \E c \in Range(classify.typos) : c.confidence = "medium"
  /\ \E c \in Range(classify.typos) : c.correction = ObjectFunction

\* The workers that Tesseract.createWorker made for run r.
CreatedBy(r) == {w \in DOMAIN workers : workers[w].owner = r}

\* C28: after a run has ended by any path, every worker the run created
\* has been terminated and currentWorker is null.
C28_WorkersReleased ==
  \A r \in DOMAIN runs :
    runs[r].pc = "done" =>
      /\ \A w \in CreatedBy(r) : workers[w].terminated
      /\ app.currentWorker = NoWorker

\* C29: in a list of detectTypos two candidates with the same original text
\* have the same correction and the same tier, so the candidate that the
\* text-keyed lookup of drawAnnotations keeps for a text (the last one)
\* gives every occurrence the color and label of its own candidate.
C29_SameTextSameVerdict ==
  classify.calls > 0 =>
    /\ \A i, j \in 1..Len(classify.typos) :
         classify.typos[i].original = classify.typos[j].original =>
           /\ classify.typos[i].correction = classify.typos[j].correction
           /\ classify.typos[i].confidence = classify.typos[j].confidence
    /\ \A w \in ClassifiedWords :
         \A c \in EmittedFor(w) :
           /\ typoMapHas(classify.typos, w.text)
           /\ drawWord(classify.typos, w) = drawWord(<<c>>, w)

\* A word was read twice, at two places, and both occurrences were
\* reported.
C29_Witness ==
  /\ classify.calls > 0
  /\ \E i, j \in 1..Len(classify.typos) :
       /\ i < j
       /\ classify.typos[i].original = classify.typos[j].original
       /\ classify.typos[i].bbox # classify.typos[j].bbox
       /\ classify.typos[i].original = TextHe11o

(***************************************************************************)
(* A retry that fails (specification RunSpec).                             *)
(***************************************************************************)
\* The step in which retryWithTraditionalChinese of run r reaches its catch
\* block and returns.
RetryFails(r) ==
  runs[r].outcome # "retryFailed" /\ runs'[r].outcome = "retryFailed"

Undisturbed(r) ==
  /\ ~runs[r].cancelled
  /\ \A q \in DOMAIN runs \ {r} : runs[q].pc = "idle"

====
